---- MODULE Spec2Model ----
(***************************************************************************)
(* The record store of the watch-log application (App component): the      *)
(* in-memory record list `movies`, its debounced persistence to            *)
(* localStorage, file import / export, bulk selection, and the list        *)
(* pipeline search -> filter -> sort -> paginate.                          *)
(*                                                                         *)
(* JavaScript values are modelled as tagged records [t, v]; strings are    *)
(* sequences of one-character strings, so "ab" is <<"a", "b">>.            *)
(***************************************************************************)
EXTENDS Integers, Sequences, FiniteSets, Bags, TLC

VARIABLES
    movies,      \* useState<Movie[]>: the record list (when it is an array)
    moviesType,  \* shape of the value held by `movies`: "array", "null", "object"
    storage,     \* localStorage[STORAGE_KEY]
    timers,      \* pending setTimeout handlers of the save effect, each with its captured `movies`
    burstChanges, \* history: setMovies calls in the current burst of changes (2 stands for two or more)
    burstWrites, \* history: localStorage.setItem calls since the current burst of changes began
    pending,     \* bag of FileReader reads in flight: the chosen file and what its onload closure captured
    alert,       \* the window.alert raised by the step just taken (dismissed before the next event)
    loaded,      \* the file handled by the reader.onload that raised the alert
    nextUuid,    \* number of identities crypto.randomUUID has minted
    isSelectionMode, \* useState(false): the bulk action toolbar is shown
    selectedIds, \* useState<Set<string>>: the identities ticked for a bulk action
    currentPage, \* useState(1)
    itemsPerPage, \* useState(24)
    searchTerm,  \* useState(''): the characters of the search box
    filterStatus, \* useState('全部'): the status button pressed
    dateFilter,  \* useState('all'): the option of the date select
    filterCountry, \* useState('all'): the option of the country select
    sortConfig,  \* useState({ field: 'addedAt', direction: 'desc' })
    lastEvent,   \* history: the user-interface event of the step just taken
    probe        \* the call of a pipeline function under study: its arguments and its result

store == <<movies, moviesType, storage, timers, burstChanges, burstWrites, pending, alert, loaded, nextUuid>>
view == <<isSelectionMode, selectedIds, currentPage, itemsPerPage, searchTerm, filterStatus,
          dateFilter, filterCountry, sortConfig>>
vars == <<store, view, lastEvent, probe>>

----------------------------------------------------------------------------
(* Bounds *)

MaxLen == 2        \* longest record list explored
MaxMint == 1       \* identities minted by crypto.randomUUID
MaxPending == 1    \* FileReader reads in flight at once
MaxRecords == 25   \* longest sorted sequence cut into pages

----------------------------------------------------------------------------
(* JavaScript values *)

Undefined == [t |-> "undefined", v |-> 0]
StrVal(s) == [t |-> "string", v |-> s]
NumVal(n) == [t |-> "number", v |-> n]

\* String(x) of part_001:391-392, for the values an id can hold
JsString(x) ==
    IF x.t = "undefined" THEN <<"u","n","d","e","f","i","n","e","d">>
    ELSE IF x.t = "number" THEN <<ToString(x.v)>>
    ELSE x.v

\* a Movie object; only the fields the store operations read or write
Movie(id, title) == [t |-> "object", id |-> id, title |-> title]

\* a property read: a key the object does not have reads as undefined
Get(m, key) == IF key \in DOMAIN m THEN m[key] ELSE Undefined
\* a primitive array element (a number): every property read yields undefined
Primitive == [t |-> "number", id |-> Undefined, title |-> Undefined]
\* a null array element: a property read throws TypeError
NullElem == [t |-> "null", id |-> Undefined, title |-> Undefined]

\* crypto.randomUUID(): the k-th identity minted, a string no file written before contains
Uuid(k) == StrVal(<<"#", ToString(k)>>)

TitleA == StrVal(<<"a">>)
TitleB == StrVal(<<"b">>)
Titles == {TitleA, TitleB}

----------------------------------------------------------------------------
(* JSON text.  A text is [k, t, items]: k = "json" for text JSON.parse       *)
(* accepts (t is the type of the parsed value), "garbage" for text it        *)
(* rejects, "empty" for the empty string and "absent" for no value.          *)

Absent == [t |-> "absent", v |-> 0]       \* a key the object text does not have

NoText == [k |-> "absent", t |-> "none", items |-> <<>>]
EmptyText == [k |-> "empty", t |-> "none", items |-> <<>>]
Garbage == [k |-> "garbage", t |-> "none", items |-> <<>>]
JsonNull == [k |-> "json", t |-> "null", items |-> <<>>]
JsonObject == [k |-> "json", t |-> "object", items |-> <<>>]
JsonArray(items) == [k |-> "json", t |-> "array", items |-> items]

\* JSON.stringify of one property value: an undefined property is left out,
\* NaN is written as null
StringifyValue(x) ==
    IF x.t = "undefined" THEN Absent
    ELSE IF x.t = "NaN" THEN [t |-> "null", v |-> 0]
    ELSE x
\* the property read after JSON.parse: a missing key reads as undefined
ParseValue(j) == IF j.t = "absent" THEN Undefined ELSE j

\* an array element, property by property ("t" is the type of the element)
StringifyElem(m) == [key \in DOMAIN m |-> IF key = "t" THEN m.t ELSE StringifyValue(m[key])]
ParseElem(j) == [key \in DOMAIN j |-> IF key = "t" THEN j.t ELSE ParseValue(j[key])]

\* JSON.stringify(movies)
JsonStringify(ms) == JsonArray([i \in 1..Len(ms) |-> StringifyElem(ms[i])])
\* the array JSON.parse returns for an array text
JsonParseItems(text) == [i \in 1..Len(text.items) |-> ParseElem(text.items[i])]

----------------------------------------------------------------------------
(* Delimited text.  A text of characters is [k |-> "chars", items |-> the    *)
(* characters]; the byte-order mark U+FEFF is the character "BOM".  The two   *)
(* header names the model's records need are 'ID' and the title column,      *)
(* written here in ASCII as "Title".                                         *)

Chars(cs) == [k |-> "chars", t |-> "none", items |-> cs]

HeaderId == <<"I", "D">>
HeaderTitle == <<"T", "i", "t", "l", "e">>

\* the characters String.prototype.trim removes
WhiteSpace == {" ", "\t", "\r", "BOM"}

RECURSIVE TrimStart(_)
TrimStart(cs) ==
    IF cs # <<>> /\ Head(cs) \in WhiteSpace THEN TrimStart(Tail(cs)) ELSE cs

RECURSIVE TrimEnd(_)
TrimEnd(cs) ==
    IF cs # <<>> /\ cs[Len(cs)] \in WhiteSpace THEN TrimEnd(SubSeq(cs, 1, Len(cs) - 1)) ELSE cs

Trim(cs) == TrimEnd(TrimStart(cs))

\* content.split(/\r?\n/)
RECURSIVE SplitFrom(_, _, _, _)
SplitFrom(text, i, current, lines) ==
    IF i > Len(text) THEN Append(lines, current)
    ELSE IF text[i] = "\n" THEN SplitFrom(text, i + 1, <<>>, Append(lines, current))
    ELSE IF text[i] = "\r" /\ i + 1 <= Len(text) /\ text[i + 1] = "\n"
         THEN SplitFrom(text, i + 2, <<>>, Append(lines, current))
    ELSE SplitFrom(text, i + 1, Append(current, text[i]), lines)

\* content.split(/\r?\n/).filter(line => line.trim() !== '')
SplitLines(text) == SelectSeq(SplitFrom(text, 1, <<>>, <<>>), LAMBDA line : Trim(line) # <<>>)

\* the loop of parseCSVLine from index i on
RECURSIVE ParseCSVFrom(_, _, _, _, _)
ParseCSVFrom(text, i, current, inQuote, result) ==
    IF i > Len(text) THEN Append(result, current)
    ELSE IF text[i] = "\""
         THEN IF inQuote /\ i + 1 <= Len(text) /\ text[i + 1] = "\""
              THEN ParseCSVFrom(text, i + 2, Append(current, "\""), inQuote, result)
              ELSE ParseCSVFrom(text, i + 1, current, ~inQuote, result)
    ELSE IF text[i] = "," /\ ~inQuote
         THEN ParseCSVFrom(text, i + 1, <<>>, inQuote, Append(result, current))
    ELSE ParseCSVFrom(text, i + 1, Append(current, text[i]), inQuote, result)

parseCSVLine(text) == ParseCSVFrom(text, 1, <<>>, FALSE, <<>>)

\* lines[0] without a leading byte-order mark
StripBom(line) == IF line # <<>> /\ Head(line) = "BOM" THEN Tail(line) ELSE line

\* keyIndex: the column that ends up feeding a key, the last one whose header
\* cell is the name (0 when no column is)
ColumnOf(headerRow, name) ==
    LET cols == { i \in 1..Len(headerRow) : headerRow[i] = name }
    IN  IF cols = {} THEN 0 ELSE CHOOSE i \in cols : \A j \in cols : j <= i

\* values[idx] ? values[idx].trim() : ''
CellValue(values, idx) == IF idx <= Len(values) THEN Trim(values[idx]) ELSE <<>>

\* the data lines that are not skipped as empty rows
DataRows(lines) ==
    SelectSeq([i \in 1..(Len(lines) - 1) |-> parseCSVLine(lines[i + 1])],
              LAMBDA values : Len(values) >= 2)

\* the id cell of a row as the loop leaves it: '' when the cell is empty and
\* when no column is named ID (movie.id is then undefined); both are falsy
RowIdCell(values, idCol) == IF idCol = 0 THEN <<>> ELSE CellValue(values, idCol)

\* the object built for one row; minted is the number of identities
\* crypto.randomUUID has handed out before this row's
RowMovie(values, idCol, titleCol, minted) ==
    Movie(IF RowIdCell(values, idCol) = <<>> THEN Uuid(minted + 1)
          ELSE StrVal(RowIdCell(values, idCol)),
          IF titleCol = 0 THEN Undefined ELSE StrVal(CellValue(values, titleCol)))

\* NaN: what parseFloat returns for a text that does not start with a number
NaN == [t |-> "NaN", v |-> 0]

\* the decimal digits from index i on
RECURSIVE DecimalFrom(_, _, _)
DecimalFrom(cs, i, acc) ==
    IF i > Len(cs) \/ cs[i] \notin {"0", "1", "2", "3", "4", "5", "6", "7", "8", "9"} THEN acc
    ELSE DecimalFrom(cs, i + 1,
                     acc * 10 + (CHOOSE d \in 0..9 : ToString(d) = cs[i]))

\* parseFloat(val) of a text without fraction or exponent: an optional sign
\* and the longest run of digits; NaN when no digit follows
ParseFloat(cs) ==
    LET s == TrimStart(cs)
        signed == s # <<>> /\ s[1] \in {"-", "+"}
        body == IF signed THEN Tail(s) ELSE s
    IN  IF body = <<>> \/ body[1] \notin {"0", "1", "2", "3", "4", "5", "6", "7", "8", "9"} THEN NaN
        ELSE IF signed /\ s[1] = "-" THEN NumVal(0 - DecimalFrom(body, 1, 0))
        ELSE NumVal(DecimalFrom(body, 1, 0))

\* a coercion that takes every cell without a number for 0
NumericCellOrZero(val) == IF ParseFloat(val) = NaN THEN NumVal(0) ELSE ParseFloat(val)

\* movie[key] = val ? parseFloat(val) : 0
NumericCell(val) == IF val = <<>> THEN NumVal(0) ELSE ParseFloat(val)

\* the header names of the numeric keys, written in ASCII
HeaderRating == <<"R", "a", "t", "i", "n", "g">>
HeaderCurrentEpisode == <<"E", "p">>
HeaderTotalEpisodes == <<"E", "p", "s">>
HeaderDuration == <<"M", "i", "n">>

NumericHeaders ==
    [rating |-> HeaderRating, currentEpisode |-> HeaderCurrentEpisode,
     totalEpisodes |-> HeaderTotalEpisodes, duration |-> HeaderDuration]

\* the numeric keys a header row maps, each with its coerced cell
NumericFields(values, headerRow) ==
    [key \in { k \in DOMAIN NumericHeaders : ColumnOf(headerRow, NumericHeaders[k]) # 0 } |->
        NumericCell(CellValue(values, ColumnOf(headerRow, NumericHeaders[key])))]

\* rows among the first n that get a minted identity
MintedBefore(rows, idCol, n) ==
    Cardinality({ j \in 1..n : RowIdCell(rows[j], idCol) = <<>> })

\* the .csv branch of reader.onload: newMovies, given the identities minted so far
CsvMovies(text, minted) ==
    LET lines == SplitLines(text)
        headerRow == parseCSVLine(StripBom(lines[1]))
        idCol == ColumnOf(headerRow, HeaderId)
        titleCol == ColumnOf(headerRow, HeaderTitle)
        rows == DataRows(lines)
    IN  [i \in 1..Len(rows) |->
            RowMovie(rows[i], idCol, titleCol, minted + MintedBefore(rows, idCol, i - 1))
              @@ NumericFields(rows[i], headerRow)]

----------------------------------------------------------------------------
(* Files offered to the import.  A file is [ext, text]. *)

File(ext, text) == [ext |-> ext, text |-> text]
NoFile == File("none", NoText)

JElem(id, title) == [t |-> "object", id |-> id, title |-> title]
JPrimitive == [t |-> "number", id |-> Absent, title |-> Absent]
JNullElem == [t |-> "null", id |-> Absent, title |-> Absent]

Id1 == StrVal(<<"1">>)
Id2 == StrVal(<<"2">>)

JsonFiles ==
    { File("json", Garbage), File("json", JsonObject),
      File("json", JsonArray(<<JElem(Id1, TitleA), JElem(Id1, TitleB)>>)),
      File("json", JsonArray(<<JElem(Id2, TitleA), JElem(Id1, TitleA)>>)),
      File("json", JsonArray(<<JPrimitive>>)),
      File("json", JsonArray(<<JNullElem>>)) }

\* one row that carries the identity "1" and one that carries none
CsvFiles ==
    { File("csv", Chars(HeaderTitle \o <<",">> \o HeaderId
                        \o <<"\r", "\n", "\"", "a", "\"", ",", "1", "\n", "b", ",">>)) }

OtherFiles == { File("txt", Garbage) }

Files == JsonFiles \cup CsvFiles \cup OtherFiles

\* the files offered next to the exports while the round trip is studied
RoundTripFiles ==
    { File("json", JsonArray(<<JElem(NumVal(1), TitleA)>>)),
      File("json", JsonArray(<<JPrimitive>>)),
      File("json", JsonArray(<<JElem(Id1, TitleA), JElem(Id1, TitleB)>>)) }

\* the files offered while the save timer is studied
SaveFiles ==
    { File("json", JsonArray(<<JElem(Id1, TitleA)>>)), File("txt", Garbage) }

\* values localStorage may hold when the application starts
PersistedTexts ==
    { NoText, EmptyText, Garbage, JsonNull, JsonObject,
      JsonArray(<<>>), JsonArray(<<JElem(Id1, TitleA)>>) }

----------------------------------------------------------------------------
(* Load on start *)

\* the useState initialiser: saved ? JSON.parse(saved) : [], [] when parse throws
LoadType(saved) ==
    IF saved.k \in {"absent", "empty"} THEN "array"
    ELSE IF saved.k = "garbage" THEN "array"
    ELSE saved.t

LoadItems(saved) ==
    IF saved.k = "json" /\ saved.t = "array" THEN JsonParseItems(saved) ELSE <<>>

NoAlert == [msg |-> "none", counts |-> <<>>]

NoEvent == [ev |-> "none", page |-> 0, ok |-> FALSE]
NoProbe == [fn |-> "none"]

\* the selector values that filter nothing: '全部' and 'all'
AllStatus == StrVal(<<"all">>)
AllTime == [k |-> "all", y |-> 0, m |-> 0]
AllCountries == StrVal(<<"all">>)

\* an effect without cleanup: the earlier timeouts stay armed
ClearTimeoutNone(ts) == ts

\* the cleanup of the save effect: clearTimeout(handler)
ClearTimeout(ts) == <<>>

\* an effect that leaves a pending timeout, with the list it captured, in place
SaveEffectThrottled(ts, ms) == IF ts = <<>> THEN <<ms>> ELSE ts

\* the save effect run for a new `movies`: cleanup of the previous run, then setTimeout
SaveEffect(ts, ms) == Append(ClearTimeout(ts), ms)

\* the state after the first render, from any of the given stored texts
Booted(texts) ==
    /\ storage \in texts
    /\ movies = LoadItems(storage)
    /\ moviesType = LoadType(storage)
    /\ timers = IF moviesType = "array" THEN SaveEffect(<<>>, movies) ELSE <<>>
    /\ burstChanges = 0
    /\ burstWrites = 0
    /\ pending = EmptyBag
    /\ alert = NoAlert
    /\ loaded = NoFile
    /\ nextUuid = 0
    /\ isSelectionMode = FALSE
    /\ selectedIds = {}
    /\ currentPage = 1
    /\ itemsPerPage = 24
    /\ searchTerm = <<>>
    /\ filterStatus = AllStatus
    /\ dateFilter = AllTime
    /\ filterCountry = AllCountries
    /\ sortConfig = [field |-> "addedAt", direction |-> "desc"]
    /\ lastEvent = NoEvent
    /\ probe = NoProbe

Init == Booted(PersistedTexts)

\* the component rendered: `movies` is an array (movies.forEach throws otherwise
\* and nothing is mounted)
Mounted == moviesType = "array"

\* setMovies(next) followed by the save effect of the re-render
SetMovies(next) ==
    /\ movies' = next
    /\ timers' = SaveEffect(timers, next)
    /\ burstChanges' = IF timers = <<>> THEN 1 ELSE IF burstChanges < 2 THEN burstChanges + 1 ELSE 2
    /\ burstWrites' = IF timers = <<>> THEN 0 ELSE burstWrites
    /\ UNCHANGED <<moviesType, storage>>

\* no alert is on screen after a step that raises none
Dismissed == alert' = NoAlert /\ loaded' = NoFile

\* a step of the record store: it sets none of the selection, pagination and
\* filter states
ViewUntouched == lastEvent' = NoEvent /\ UNCHANGED <<view, probe>>

\* the setTimeout handler of the save effect
SaveTimerFires ==
    /\ timers # <<>>
    /\ storage' = JsonStringify(Head(timers))
    /\ timers' = Tail(timers)
    /\ burstWrites' = burstWrites + 1
    /\ Dismissed
    /\ ViewUntouched
    /\ UNCHANGED <<movies, moviesType, burstChanges, pending, nextUuid>>

----------------------------------------------------------------------------
(* Form submissions and delete *)

handleAddMovie(title) ==
    /\ Mounted
    /\ Len(movies) < MaxLen
    /\ nextUuid < MaxMint
    /\ nextUuid' = nextUuid + 1
    /\ SetMovies(<<Movie(Uuid(nextUuid + 1), title)>> \o movies)
    /\ Dismissed
    /\ ViewUntouched
    /\ UNCHANGED pending

\* {...m, ...movieData}: an object carrying the submitted fields
Spread(m, id, title) == Movie(id, title)

UpdateMap(ms, id, title) ==
    [i \in 1..Len(ms) |-> IF ms[i].id = id THEN Spread(ms[i], id, title) ELSE ms[i]]

handleUpdateMovie(id, title) ==
    /\ Mounted
    /\ SetMovies(UpdateMap(movies, id, title))
    /\ Dismissed
    /\ ViewUntouched
    /\ UNCHANGED <<pending, nextUuid>>

DeleteFilter(ms, id) == SelectSeq(ms, LAMBDA m : JsString(m.id) # JsString(id))

\* a confirmation that is not asked for
ConfirmSkipped(answer) == TRUE

\* window.confirm(message): the answer the user gives
WindowConfirm(answer) == answer

handleDeleteMovie(id, confirmed) ==
    /\ Mounted
    /\ ViewUntouched
    /\ IF WindowConfirm(confirmed)
       THEN /\ SetMovies(DeleteFilter(movies, id))
            /\ Dismissed
            /\ UNCHANGED <<pending, nextUuid>>
       ELSE /\ Dismissed
            /\ UNCHANGED <<movies, moviesType, storage, timers, burstChanges, burstWrites, pending, nextUuid>>

\* The handlers above follow the identity and the title of a record.  The
\* ones below are the same handlers with the rating and the last-modified
\* time of the record followed as well.

\* the object MovieForm.handleSubmit hands to onSubmit
FormData(id, title, rating) ==
    [t |-> "object", id |-> id, title |-> title, rating |-> NumVal(rating)]

\* {...movieData, id: crypto.randomUUID(), ..., lastUpdated: Date.now()}
NewMovie(movieData, uuid, now) ==
    [key \in DOMAIN movieData \cup {"lastUpdated"} |->
        IF key = "id" THEN uuid
        ELSE IF key = "lastUpdated" THEN NumVal(now)
        ELSE movieData[key]]

\* handleAddMovie at the time `now`
handleAddMovieData(movieData, now) ==
    /\ Mounted
    /\ Len(movies) < MaxLen
    /\ nextUuid < MaxMint
    /\ nextUuid' = nextUuid + 1
    /\ SetMovies(<<NewMovie(movieData, Uuid(nextUuid + 1), now)>> \o movies)
    /\ Dismissed
    /\ lastEvent' = [ev |-> "add", now |-> now]
    /\ UNCHANGED <<view, probe, pending>>

\* { ...m, ...movieData, lastUpdated: Date.now() }
SpreadData(m, movieData, now) ==
    [key \in DOMAIN m \cup DOMAIN movieData \cup {"lastUpdated"} |->
        IF key = "lastUpdated" THEN NumVal(now)
        ELSE IF key \in DOMAIN movieData THEN movieData[key]
        ELSE m[key]]

\* prev.map(m => m.id === movieData.id ? {...} : m)
UpdateMapData(ms, movieData, now) ==
    [i \in 1..Len(ms) |->
        IF Get(ms[i], "id") = movieData.id THEN SpreadData(ms[i], movieData, now) ELSE ms[i]]

\* handleUpdateMovie at the time `now`
handleUpdateMovieData(movieData, now) ==
    /\ Mounted
    /\ SetMovies(UpdateMapData(movies, movieData, now))
    /\ Dismissed
    /\ lastEvent' = [ev |-> "edit", now |-> now]
    /\ UNCHANGED <<view, probe, pending, nextUuid>>

----------------------------------------------------------------------------
(* Export *)

\* the content handleExport('json') hands to the download
handleExport(ms) == File("json", JsonStringify(ms))

\* an element of Array.prototype.join: undefined is written as nothing
JoinCell(x) ==
    IF x.t = "undefined" THEN <<>>
    ELSE IF x.t = "NaN" THEN <<"N", "a", "N">>
    ELSE JsString(x)

\* stringValue.replace(/"/g, '""')
RECURSIVE DoubleQuotes(_)
DoubleQuotes(cs) ==
    IF cs = <<>> THEN <<>>
    ELSE (IF cs[1] = "\"" THEN <<"\"", "\"">> ELSE <<cs[1]>>) \o DoubleQuotes(Tail(cs))

\* an escape that wraps nothing in quotes
EscapeCsvBare(x) == JoinCell(x)

\* escapeCsv: '' for a falsy value; quotes around a text with a comma, a
\* quote or a line feed, its quotes doubled
escapeCsv(x) ==
    IF x.t = "undefined" \/ JoinCell(x) = <<>> THEN <<>>
    ELSE IF \E i \in 1..Len(JoinCell(x)) : JoinCell(x)[i] \in {",", "\"", "\n"}
    THEN <<"\"">> \o DoubleQuotes(JoinCell(x)) \o <<"\"">>
    ELSE JoinCell(x)

\* one row of convertToCSV, with the columns of the fields the records of
\* this model carry: ID, title, rating
CsvRow(m) ==
    JoinCell(Get(m, "id")) \o <<",">> \o escapeCsv(Get(m, "title")) \o <<",">>
        \o JoinCell(Get(m, "rating"))

RECURSIVE JoinRows(_)
JoinRows(rows) ==
    IF rows = <<>> THEN <<>> ELSE <<"\n">> \o rows[1] \o JoinRows(Tail(rows))

\* [headers.join(','), ...rows.map(r => r.join(','))].join('\n')
convertToCSV(data) ==
    HeaderId \o <<",">> \o HeaderTitle \o <<",">> \o HeaderRating
        \o JoinRows([i \in 1..Len(data) |-> CsvRow(data[i])])

\* the content handleExport('csv') hands to the download: a byte-order mark
\* and the rows
handleExportCsv(ms) == File("csv", Chars(<<"BOM">> \o convertToCSV(ms)))

----------------------------------------------------------------------------
(* Import *)

\* new Set(movies.map(m => String(m.id)))
CurrentIds(ms) == { JsString(ms[i].id) : i \in 1..Len(ms) }

\* a parse that wraps a JSON value that is not an array into a one-element batch
ParseFileLenient(file, minted) ==
    IF file.ext = "json"
    THEN IF file.text.k # "json" THEN [end |-> "throws", batch |-> <<>>]
         ELSE IF file.text.t # "array"
              THEN [end |-> "batch", batch |-> <<Movie(Undefined, Undefined)>>]
         ELSE [end |-> "batch", batch |-> JsonParseItems(file.text)]
    ELSE IF file.ext = "csv"
    THEN IF SplitLines(file.text.items) = <<>> THEN [end |-> "throws", batch |-> <<>>]
         ELSE [end |-> "batch", batch |-> CsvMovies(file.text.items, minted)]
    ELSE [end |-> "unsupported", batch |-> <<>>]

\* the try block up to the merge: the candidate batch, or the way it ends early
\*   "batch"       newMovies was built
\*   "notArray"    JSON.parse returned something that is not an array (alert, return)
\*   "unsupported" neither .json nor .csv (alert, return)
\*   "throws"      JSON.parse threw, or lines[0] of an empty .csv was read
ParseFile(file, minted) ==
    IF file.ext = "json"
    THEN IF file.text.k # "json" THEN [end |-> "throws", batch |-> <<>>]
         ELSE IF file.text.t # "array" THEN [end |-> "notArray", batch |-> <<>>]
         ELSE [end |-> "batch", batch |-> JsonParseItems(file.text)]
    ELSE IF file.ext = "csv"
    THEN IF SplitLines(file.text.items) = <<>> THEN [end |-> "throws", batch |-> <<>>]
         ELSE [end |-> "batch", batch |-> CsvMovies(file.text.items, minted)]
    ELSE [end |-> "unsupported", batch |-> <<>>]

\* the number of crypto.randomUUID calls the try block makes
MintedBy(file) ==
    IF file.ext = "csv" /\ SplitLines(file.text.items) # <<>>
    THEN LET lines == SplitLines(file.text.items)
             rows == DataRows(lines)
         IN  MintedBefore(rows, ColumnOf(parseCSVLine(StripBom(lines[1])), HeaderId), Len(rows))
    ELSE 0

\* the strings currentIds.has is asked about when `file` is merged: String(id)
\* of its rows (a row without ID gets an identity no list holds)
AskedIds(file) == CurrentIds(ParseFile(file, MaxMint).batch)

\* what reader.onload sees of the `movies` it closed over: currentIds is built
\* from it and consulted for the rows of the file only
Captured(file, ms) == CurrentIds(ms) \cap AskedIds(file)

\* <input type="file"> onChange: a FileReader is started.  Its onload closure
\* keeps the `movies` of the render that created handleFileChange, and reads
\* it only through currentIds, which is what the read in flight records.
handleFileChange(file) ==
    /\ Mounted
    /\ BagCardinality(pending) < MaxPending
    /\ pending' = pending (+) SetToBag({[file |-> file, currentIds |-> Captured(file, movies)]})
    /\ Dismissed
    /\ ViewUntouched
    /\ UNCHANGED <<movies, moviesType, storage, timers, burstChanges, burstWrites, nextUuid>>

\* the filter without String(): an id that is not a string is never in the set
UniqueNewMoviesRaw(newMovies, currentIds) ==
    SelectSeq(newMovies, LAMBDA m : m.id.t # "string" \/ m.id.v \notin currentIds)

\* newMovies.filter(m => !currentIds.has(String(m.id)))
UniqueNewMovies(newMovies, currentIds) ==
    SelectSeq(newMovies, LAMBDA m : JsString(m.id) \notin currentIds)

\* m.id on a null element throws TypeError inside the filter callback
FilterThrows(newMovies) == \E i \in 1..Len(newMovies) : newMovies[i].t = "null"

\* setMovies(prev => [...uniqueNewMovies, ...prev])
Prepend(unique, prev) == unique \o prev

\* the skipped count reported as the whole batch
ImportedAlertTotal(newMovies, unique) ==
    [msg |-> "imported", counts |-> <<Len(unique), Len(newMovies)>>]

ImportedAlert(newMovies, unique) ==
    [msg |-> "imported", counts |-> <<Len(unique), Len(newMovies) - Len(unique)>>]
NoNewAlert == [msg |-> "noNew", counts |-> <<>>]
NotArrayAlert == [msg |-> "notArray", counts |-> <<>>]
UnsupportedAlert == [msg |-> "unsupported", counts |-> <<>>]
FailedAlert == [msg |-> "failed", counts |-> <<>>]

\* the body of reader.onload for a read
Merge(read) ==
    /\ LET file == read.file
           parsed == ParseFile(file, nextUuid)
           newMovies == parsed.batch
           unique == UniqueNewMovies(newMovies, read.currentIds)
       IN  /\ loaded' = file
           /\ ViewUntouched
           /\ nextUuid' = nextUuid + MintedBy(file)
           /\ nextUuid' <= MaxMint
           /\ IF parsed.end = "notArray"
              THEN /\ alert' = NotArrayAlert
                   /\ UNCHANGED <<movies, moviesType, storage, timers, burstChanges, burstWrites>>
              ELSE IF parsed.end = "unsupported"
              THEN /\ alert' = UnsupportedAlert
                   /\ UNCHANGED <<movies, moviesType, storage, timers, burstChanges, burstWrites>>
              ELSE IF parsed.end = "throws" \/ FilterThrows(newMovies)
              THEN /\ alert' = FailedAlert
                   /\ UNCHANGED <<movies, moviesType, storage, timers, burstChanges, burstWrites>>
              ELSE IF Len(unique) > 0
              THEN /\ Len(unique) + Len(movies) <= MaxLen
                   /\ SetMovies(Prepend(unique, movies))
                   /\ alert' = ImportedAlert(newMovies, unique)
              ELSE /\ alert' = NoNewAlert
                   /\ UNCHANGED <<movies, moviesType, storage, timers, burstChanges, burstWrites>>

\* reader.onload of one of the reads in flight
FileLoaded(read) ==
    /\ BagIn(read, pending)
    /\ pending' = pending (-) SetToBag({read})
    /\ Merge(read)

\* a file chosen and read with no other event in between: onload runs in the
\* render that created the closure
ImportAtOnce(file) ==
    /\ Mounted
    /\ pending = EmptyBag
    /\ Merge([file |-> file, currentIds |-> Captured(file, movies)])
    /\ UNCHANGED pending

----------------------------------------------------------------------------
(* Fuzzy search *)

Min(x, y) == IF x <= y THEN x ELSE y
Max(x, y) == IF x >= y THEN x ELSE y
Abs(x) == IF x >= 0 THEN x ELSE 0 - x

\* the inner loop of levenshtein for row j: matrix[j][1..a.length], given
\* row j-1 (prev) and the cells of row j filled so far (cur); cell i of a row
\* is at index i + 1
RECURSIVE LevCells(_, _, _, _, _, _)
LevCells(a, b, j, prev, i, cur) ==
    IF i > Len(a) THEN cur
    ELSE LET indicator == IF a[i] = b[j] THEN 0 ELSE 1
             cell == Min(Min(cur[i] + 1, prev[i + 1] + 1), prev[i] + indicator)
         IN  LevCells(a, b, j, prev, i + 1, Append(cur, cell))

\* the outer loop: row j of the matrix from row j-1, up to the last row
RECURSIVE LevRows(_, _, _, _)
LevRows(a, b, j, prev) ==
    IF j > Len(b) THEN prev
    ELSE LevRows(a, b, j + 1, LevCells(a, b, j, prev, 1, <<j>>))

\* the distance when no two characters are ever taken as equal
LevenshteinNoMatch(a, b) == Max(Len(a), Len(b))

\* levenshtein(a, b): matrix[b.length][a.length]; row 0 is 0..a.length
levenshtein(a, b) == LevRows(a, b, 1, [i \in 1..(Len(a) + 1) |-> i - 1])[Len(a) + 1]

\* String.prototype.toLowerCase on the letters of the model's alphabet
LowerOf(c) == IF c = "A" THEN "a" ELSE IF c = "B" THEN "b" ELSE IF c = "C" THEN "c" ELSE c
ToLowerCase(cs) == [i \in 1..Len(cs) |-> LowerOf(cs[i])]

\* String.prototype.includes
Includes(cs, part) ==
    \E k \in 0..(Len(cs) - Len(part)) : SubSeq(cs, k + 1, k + Len(part)) = part

\* the characters of /[\s\-_：:，,。]/; the full-width colon, the full-width
\* comma and the ideographic full stop are the characters "FWCOLON",
\* "FWCOMMA" and "IDEOSTOP"
WordSeparators == {" ", "\t", "\n", "\r", "BOM", "-", "_", "FWCOLON", ":", "FWCOMMA", ",", "IDEOSTOP"}

\* cleanText.split(/[\s\-_：:，,。]+/) from index i on: a run of separators
\* ends the current word, also an empty one at the start of the text
RECURSIVE SplitWordsFrom(_, _, _, _)
SplitWordsFrom(cs, i, current, words) ==
    IF i > Len(cs) THEN Append(words, current)
    ELSE IF cs[i] \in WordSeparators
         THEN IF i > 1 /\ cs[i - 1] \in WordSeparators
              THEN SplitWordsFrom(cs, i + 1, current, words)
              ELSE SplitWordsFrom(cs, i + 1, <<>>, Append(words, current))
    ELSE SplitWordsFrom(cs, i + 1, Append(current, cs[i]), words)

SplitWords(cs) == SplitWordsFrom(cs, 1, <<>>, <<>>)

\* an error budget of 1 whatever the length of the term
MaxErrorsOne(cleanSearch) == 1

\* maxErrors: 2 errors for a term of more than 4 characters, else 1
MaxErrors(cleanSearch) == IF Len(cleanSearch) > 4 THEN 2 ELSE 1

\* a fast path that never matches
FastPathNone(cleanText, cleanSearch) == FALSE

\* 1. exact substring match
FastPath(cleanText, cleanSearch) == Includes(cleanText, cleanSearch)

\* fuzzyMatch(text, search): text is a string value or undefined (the types
\* of the signature), search the characters of the term
fuzzyMatch(text, search) ==
    IF search = <<>> THEN TRUE
    ELSE IF text.t # "string" \/ text.v = <<>> THEN FALSE
    ELSE LET cleanText == ToLowerCase(text.v)
             cleanSearch == ToLowerCase(search)
             maxErrors == MaxErrors(cleanSearch)
             words == SplitWords(cleanText)
         IN  \/ FastPath(cleanText, cleanSearch)
             \/ /\ Len(cleanSearch) >= 2
                /\ \/ /\ Abs(Len(cleanText) - Len(cleanSearch)) <= maxErrors + 1
                      /\ levenshtein(cleanText, cleanSearch) <= maxErrors
                   \/ \E w \in 1..Len(words) :
                         /\ Abs(Len(words[w]) - Len(cleanSearch)) <= maxErrors
                         /\ levenshtein(cleanSearch, words[w]) <= maxErrors

----------------------------------------------------------------------------
(* Filtering and sorting *)


\* a Movie object with the fields the filter and the comparator read
Entry(id, title, genre, status, addedAt, country, rating, year, mediaType) ==
    [t |-> "object", id |-> id, title |-> title, genre |-> genre, status |-> status,
     addedAt |-> addedAt, country |-> country, rating |-> rating, year |-> year,
     mediaType |-> mediaType]

\* MovieStatus
WATCHED == StrVal(<<"w", "a", "t", "c", "h", "e", "d">>)
PLANNING == StrVal(<<"p", "l", "a", "n", "n", "i", "n", "g">>)

\* Timestamps are counted in days; day 0 is 1 January 2024 in the local
\* calendar.  The calendar is given for December 2023 to March 2024.
getFullYear(day) == IF day < 0 THEN 2023 ELSE 2024
\* getMonth() + 1
MonthOf(day) == IF day < 0 THEN 12 ELSE IF day <= 30 THEN 1 ELSE IF day <= 59 THEN 2 ELSE 3

\* the options of the date select; year_Y and month_Y-M carry the year and
\* the month the option was built from
Last7Days == [k |-> "7d", y |-> 0, m |-> 0]
Last30Days == [k |-> "30d", y |-> 0, m |-> 0]
YearOption(y) == [k |-> "year", y |-> y, m |-> 0]
MonthOption(y, m) == [k |-> "month", y |-> y, m |-> m]

\* 3. the date filter; new Date(undefined) is an invalid date, which is
\* neither >= a cutoff nor in any year
MatchesDate(movie, option, now) ==
    LET addedAt == Get(movie, "addedAt")
    IN  IF option.k = "all" THEN TRUE
        ELSE IF addedAt.t # "number" THEN FALSE
        ELSE IF option.k = "7d" THEN addedAt.v >= now - 7
        ELSE IF option.k = "30d" THEN addedAt.v >= now - 30
        ELSE IF option.k = "year" THEN getFullYear(addedAt.v) = option.y
        ELSE getFullYear(addedAt.v) = option.y /\ MonthOf(addedAt.v) = option.m

\* 1. the search filter
MatchesSearch(movie, term) ==
    fuzzyMatch(Get(movie, "title"), term) \/ fuzzyMatch(Get(movie, "genre"), term)

\* 2. the status filter
MatchesStatus(movie, status) == status = AllStatus \/ Get(movie, "status") = status

\* a country filter that wants the whole field to be the option
MatchesCountryExact(movie, country) ==
    country = AllCountries \/ Get(movie, "country") = country

\* 4. the country filter: movie.country && movie.country.includes(filterCountry)
MatchesCountry(movie, country) ==
    \/ country = AllCountries
    \/ /\ Get(movie, "country").t = "string"
       /\ Get(movie, "country").v # <<>>
       /\ Includes(Get(movie, "country").v, country.v)

\* filteredMovies
FilteredMovies(ms, term, status, option, country, now) ==
    SelectSeq(ms, LAMBDA movie : /\ MatchesSearch(movie, term)
                                 /\ MatchesStatus(movie, status)
                                 /\ MatchesDate(movie, option, now)
                                 /\ MatchesCountry(movie, country))

Digits == <<"0", "1", "2", "3", "4", "5", "6", "7", "8", "9">>
IsDigit(c) == \E d \in 1..10 : Digits[d] = c
DigitValue(c) == (CHOOSE d \in 1..10 : Digits[d] = c) - 1

\* the value of the longest prefix of digits from index i on, acc so far
RECURSIVE DigitsFrom(_, _, _)
DigitsFrom(cs, i, acc) ==
    IF i > Len(cs) \/ ~IsDigit(cs[i]) THEN acc
    ELSE DigitsFrom(cs, i + 1, acc * 10 + DigitValue(cs[i]))

\* parseInt(s) || 0 for a text without sign: leading white space is skipped,
\* a text that does not start with a digit gives NaN, hence 0
ParseIntOrZero(cs) ==
    LET s == TrimStart(cs)
    IN  IF s = <<>> \/ ~IsDigit(s[1]) THEN 0 ELSE DigitsFrom(s, 1, 0)

\* the collation order of the lower-case letters
Letters == <<"a", "b", "c", "d", "e", "f", "g", "h", "i", "j", "k", "l", "m",
             "n", "o", "p", "q", "r", "s", "t", "u", "v", "w", "x", "y", "z">>
LetterRank(c) == CHOOSE r \in 1..26 : Letters[r] = c

\* x.localeCompare(y, 'zh-CN') for texts of lower-case letters
RECURSIVE LocaleCompare(_, _)
LocaleCompare(x, y) ==
    IF x = <<>> THEN (IF y = <<>> THEN 0 ELSE 0 - 1)
    ELSE IF y = <<>> THEN 1
    ELSE IF LetterRank(x[1]) < LetterRank(y[1]) THEN 0 - 1
    ELSE IF LetterRank(x[1]) > LetterRank(y[1]) THEN 1
    ELSE LocaleCompare(Tail(x), Tail(y))

\* valA < valB for the values addedAt and rating hold: a comparison with
\* undefined is false
JsLess(x, y) == x.t = "number" /\ y.t = "number" /\ x.v < y.v

\* the comparator handed to data.sort
SortComparator(a, b, field) ==
    IF field = "year"
    THEN ParseIntOrZero(JsString(Get(a, "year"))) - ParseIntOrZero(JsString(Get(b, "year")))
    ELSE IF field = "title"
    THEN LocaleCompare(JsString(Get(a, "title")), JsString(Get(b, "title")))
    ELSE IF JsLess(Get(a, field), Get(b, field)) THEN 0 - 1
    ELSE IF JsLess(Get(b, field), Get(a, field)) THEN 1
    ELSE 0

\* x put after the last element of a sorted array that does not compare above it
RECURSIVE InsertSorted(_, _, _)
InsertSorted(sorted, x, field) ==
    IF sorted = <<>> THEN <<x>>
    ELSE IF SortComparator(sorted[Len(sorted)], x, field) <= 0 THEN Append(sorted, x)
    ELSE Append(InsertSorted(SubSeq(sorted, 1, Len(sorted) - 1), x, field), sorted[Len(sorted)])

\* Array.prototype.sort with the comparator: a stable sort
RECURSIVE ArraySort(_, _)
ArraySort(arr, field) ==
    IF arr = <<>> THEN <<>>
    ELSE InsertSorted(ArraySort(SubSeq(arr, 1, Len(arr) - 1), field), arr[Len(arr)], field)

\* Array.prototype.reverse
Reverse(arr) == [i \in 1..Len(arr) |-> arr[Len(arr) + 1 - i]]

\* a descending order got by sorting with the comparator inverted
SortedMoviesInverted(filtered, config) ==
    IF config.direction = "asc" THEN ArraySort(filtered, config.field)
    ELSE Reverse(ArraySort(Reverse(filtered), config.field))

\* sortedMovies: a copy of filteredMovies sorted, and reversed for 'desc'
SortedMovies(filtered, config) ==
    LET data == ArraySort(filtered, config.field)
    IN  IF config.direction = "asc" THEN data ELSE Reverse(data)

----------------------------------------------------------------------------
(* Pagination *)

\* the options of the page-size select
PageSizeOptions == {12, 24, 48, 96}

\* Array.prototype.slice(start, end): a negative index counts from the end,
\* both are clipped to the array
Slice(arr, start, end) ==
    LET from == IF start < 0 THEN Max(Len(arr) + start, 0) ELSE Min(start, Len(arr))
        to == IF end < 0 THEN Max(Len(arr) + end, 0) ELSE Min(end, Len(arr))
    IN  SubSeq(arr, from + 1, to)

IndexOfLastItem(page, size) == page * size
IndexOfFirstItem(page, size) == IndexOfLastItem(page, size) - size

\* sortedMovies.slice(indexOfFirstItem, indexOfLastItem)
CurrentDisplayedMovies(sorted, page, size) ==
    Slice(sorted, IndexOfFirstItem(page, size), IndexOfLastItem(page, size))

\* a page count that rounds down
TotalPagesFloor(sorted, size) == Len(sorted) \div size

\* Math.ceil(sortedMovies.length / itemsPerPage)
TotalPages(sorted, size) ==
    IF Len(sorted) % size = 0 THEN Len(sorted) \div size ELSE Len(sorted) \div size + 1

----------------------------------------------------------------------------
(* The list on screen and bulk selection *)

\* the clock of the filter: 10 March 2024
Today == 69

\* sortedMovies of the current render
SortedNow ==
    SortedMovies(FilteredMovies(movies, searchTerm, filterStatus, dateFilter, filterCountry, Today),
                 sortConfig)

\* the cards rendered: currentDisplayedMovies
DisplayedNow == CurrentDisplayedMovies(SortedNow, currentPage, itemsPerPage)

\* the identities a card hands to onDelete and onToggleSelect
DisplayedIds == { DisplayedNow[i].id : i \in 1..Len(DisplayedNow) }

\* a step that changes bulk selection only
SelectionOnly ==
    /\ lastEvent' = NoEvent
    /\ UNCHANGED <<store, currentPage, itemsPerPage, searchTerm, filterStatus, dateFilter,
                   filterCountry, sortConfig, probe>>

\* a toggle that leaves the selection as it is
toggleSelectionModeKeeping ==
    /\ Mounted
    /\ isSelectionMode' = ~isSelectionMode
    /\ UNCHANGED selectedIds
    /\ SelectionOnly

toggleSelectionMode ==
    /\ Mounted
    /\ isSelectionMode' = ~isSelectionMode
    /\ selectedIds' = {}
    /\ SelectionOnly

\* a click on a card in selection mode (MovieCard.handleCardClick)
toggleSelectMovie(id) ==
    /\ Mounted
    /\ isSelectionMode
    /\ selectedIds' = IF id \in selectedIds THEN selectedIds \ {id} ELSE selectedIds \cup {id}
    /\ UNCHANGED isSelectionMode
    /\ SelectionOnly

\* the select-all checkbox of the bulk toolbar
handleSelectAll ==
    /\ Mounted
    /\ isSelectionMode
    /\ selectedIds' = IF Cardinality(selectedIds) = Len(SortedNow) THEN {}
                      ELSE { SortedNow[i].id : i \in 1..Len(SortedNow) }
    /\ UNCHANGED isSelectionMode
    /\ SelectionOnly

\* prev.filter(m => !selectedIds.has(String(m.id)))
BulkFilter(ms, selected) == SelectSeq(ms, LAMBDA m : StrVal(JsString(m.id)) \notin selected)

\* the delete button of the bulk toolbar (disabled while nothing is selected)
handleBulkDelete(confirmed) ==
    /\ Mounted
    /\ isSelectionMode
    /\ Cardinality(selectedIds) # 0
    /\ lastEvent' = [ev |-> "bulkDelete", page |-> currentPage, ok |-> confirmed]
    /\ UNCHANGED <<currentPage, itemsPerPage, searchTerm, filterStatus, dateFilter,
                   filterCountry, sortConfig, probe>>
    /\ IF WindowConfirm(confirmed)
       THEN /\ SetMovies(BulkFilter(movies, selectedIds))
            /\ isSelectionMode' = FALSE
            /\ selectedIds' = {}
            /\ Dismissed
            /\ UNCHANGED <<pending, nextUuid>>
       ELSE /\ Dismissed
            /\ UNCHANGED <<movies, moviesType, storage, timers, burstChanges, burstWrites,
                           pending, nextUuid, isSelectionMode, selectedIds>>

----------------------------------------------------------------------------
(* Arrays and the calls that change their receiver.  An array value is       *)
(* [shared, items]: shared says that it is the very array the state          *)
(* `movies` holds, so that a call in place on it changes the stored list.    *)

StoredArray(ms) == [shared |-> TRUE, items |-> ms]

\* a filter that edits its receiver and returns it
FilterSame(a, kept) == [shared |-> a.shared, items |-> kept]

\* Array.prototype.filter: a new array of the elements kept
FilterCopy(a, kept) == [shared |-> FALSE, items |-> kept]

\* [...a], Array.from, Object.entries, Array.prototype.map and slice: a new array
FreshArray(items) == [shared |-> FALSE, items |-> items]

\* Array.prototype.sort and reverse: the receiver, rearranged
InPlace(a, rearranged) == [shared |-> a.shared, items |-> rearranged]

\* the stored list after a call in place on a
StoredAfter(ms, a) == IF a.shared THEN a.items ELSE ms

\* the stored list after the useMemo bodies of filteredMovies and sortedMovies
AppRenderStored(ms, term, status, option, country, config, now) ==
    LET stored == StoredArray(ms)
        filtered == FilterCopy(stored, FilteredMovies(stored.items, term, status, option, country, now))
        data == FreshArray(filtered.items)
        sorted == InPlace(data, ArraySort(data.items, config.field))
        afterSort == StoredAfter(ms, sorted)
        result == IF config.direction = "asc" THEN sorted ELSE InPlace(sorted, Reverse(sorted.items))
    IN  StoredAfter(afterSort, result)

\* the largest first: Array.from(set).sort((a, b) => b.localeCompare(a)) on
\* year numbers of four digits
RECURSIVE LargestFirst(_)
LargestFirst(set) ==
    IF set = {} THEN <<>>
    ELSE LET top == CHOOSE x \in set : \A y \in set : y <= x
         IN  <<top>> \o LargestFirst(set \ {top})

\* the years the Stats dropdown offers
StatsYears(ms) ==
    LET dated == { i \in 1..Len(ms) : Get(ms[i], "addedAt").t = "number" }
        yearsSet == FreshArray(LargestFirst({ getFullYear(Get(ms[i], "addedAt").v) : i \in dated }))
    IN  InPlace(yearsSet, yearsSet.items)

\* the records Stats counts for a time frame
StatsFiltered(ms, frame) ==
    FilterCopy(StoredArray(ms), SelectSeq(ms, LAMBDA movie : MatchesDate(movie, frame, Today)))

\* the stored list after Stats has computed its years, its records and its
\* genre table (sorted by count on the array Object.entries(...).map made)
StatsStored(ms, frame) ==
    LET filtered == StatsFiltered(ms, frame)
        genreData == FreshArray(filtered.items)
        afterYears == StoredAfter(ms, StatsYears(ms))
    IN  StoredAfter(afterYears, InPlace(genreData, genreData.items))

\* a time-frame button or dropdown of Stats
selectTimeFrame(frame) ==
    /\ Mounted
    /\ Len(movies) # 0
    /\ movies' = StatsStored(movies, frame)
    /\ lastEvent' = [ev |-> "stats", page |-> Len(StatsFiltered(movies, frame).items), ok |-> TRUE]
    /\ UNCHANGED <<moviesType, storage, timers, burstChanges, burstWrites, pending, alert,
                   loaded, nextUuid, view, probe>>

\* (a, b) => b.addedAt - a.addedAt
NewestFirst(a, b) ==
    IF JsLess(Get(a, "addedAt"), Get(b, "addedAt")) THEN 1
    ELSE IF JsLess(Get(b, "addedAt"), Get(a, "addedAt")) THEN 0 - 1
    ELSE 0

RECURSIVE InsertNewest(_, _)
InsertNewest(sorted, x) ==
    IF sorted = <<>> THEN <<x>>
    ELSE IF NewestFirst(sorted[Len(sorted)], x) <= 0 THEN Append(sorted, x)
    ELSE Append(InsertNewest(SubSeq(sorted, 1, Len(sorted) - 1), x), sorted[Len(sorted)])

RECURSIVE SortNewestFirst(_)
SortNewestFirst(arr) ==
    IF arr = <<>> THEN <<>>
    ELSE InsertNewest(SortNewestFirst(SubSeq(arr, 1, Len(arr) - 1)), arr[Len(arr)])

\* m.mediaType === 'tv' && m.title.toLowerCase() === title.trim().toLowerCase()
SameSeries(m, title) ==
    /\ Get(m, "mediaType") = StrVal(<<"tv">>)
    /\ ToLowerCase(Get(m, "title").v) = ToLowerCase(Trim(title))

\* existingMovies.filter(...).sort(...) of the auto-fill effect
AutoFillMatches(existing, title) ==
    LET found == FilterCopy(existing, SelectSeq(existing.items, LAMBDA m : SameSeries(m, title)))
    IN  InPlace(found, SortNewestFirst(found.items))

\* a title typed into the form that adds a record: the auto-fill effect runs
\* when the title has more than one character (the fields it fills are
\* the form's own)
typeTitle(title) ==
    /\ Mounted
    /\ Len(title) > 1
    /\ \A i \in 1..Len(movies) : Get(movies[i], "title").t = "string"
    /\ LET matches == AutoFillMatches(StoredArray(movies), title)
       IN  /\ movies' = StoredAfter(movies, matches)
           /\ lastEvent' = [ev |-> "autofill", page |-> Len(matches.items), ok |-> matches.items # <<>>]
    /\ UNCHANGED <<moviesType, storage, timers, burstChanges, burstWrites, pending, alert,
                   loaded, nextUuid, view, probe>>

----------------------------------------------------------------------------
(* Filter controls and the pager *)

\* a step of the pager: the memoised lists stay and the page is cut by slice
PagerOnly == UNCHANGED <<store, isSelectionMode, selectedIds, probe>>

\* a step of the filter bar: filteredMovies and sortedMovies are computed anew
ControlsOnly ==
    /\ movies' = AppRenderStored(movies, searchTerm', filterStatus', dateFilter', filterCountry',
                                 sortConfig', Today)
    /\ UNCHANGED <<moviesType, storage, timers, burstChanges, burstWrites, pending, alert,
                   loaded, nextUuid, isSelectionMode, selectedIds, probe>>

\* an effect with a dependency list that never fires again
ResetPaginationNever(changed, page) == page

\* useEffect(() => setCurrentPage(1), [searchTerm, filterStatus, dateFilter,
\* filterCountry, sortConfig]) after a render: `changed` says that Object.is
\* tells some dependency from its previous value
ResetPagination(changed, page) == IF changed THEN 1 ELSE page

\* a range test without its upper limit
PageRangeOpen(page, total) == page >= 1

\* page >= 1 && page <= totalPages
PageInRange(page, total) == page >= 1 /\ page <= total

\* the pagination controls are rendered: sortedMovies.length > 0
PagerShown == Len(SortedNow) > 0

handlePageChange(page) ==
    /\ Mounted
    /\ PagerShown
    /\ LET ok == PageInRange(page, TotalPages(SortedNow, itemsPerPage))
       IN  /\ currentPage' = IF ok THEN page ELSE currentPage
           /\ lastEvent' = [ev |-> "page", page |-> page, ok |-> ok]
    /\ UNCHANGED <<itemsPerPage, searchTerm, filterStatus, dateFilter, filterCountry, sortConfig>>
    /\ PagerOnly

\* the page-size select: setItemsPerPage(Number(e.target.value)); setCurrentPage(1)
changeItemsPerPage(size) ==
    /\ Mounted
    /\ PagerShown
    /\ size # itemsPerPage
    /\ itemsPerPage' = size
    /\ currentPage' = ResetPagination(FALSE, 1)
    /\ lastEvent' = [ev |-> "size", page |-> currentPage, ok |-> TRUE]
    /\ UNCHANGED <<searchTerm, filterStatus, dateFilter, filterCountry, sortConfig>>
    /\ PagerOnly

\* The filter toolbar is rendered only while selection mode is off.

\* the search box: setSearchTerm(e.target.value)
changeSearchTerm(term) ==
    /\ Mounted
    /\ ~isSelectionMode
    /\ term # searchTerm
    /\ searchTerm' = term
    /\ currentPage' = ResetPagination(searchTerm' # searchTerm, currentPage)
    /\ lastEvent' = [ev |-> "search", page |-> currentPage, ok |-> TRUE]
    /\ UNCHANGED <<itemsPerPage, filterStatus, dateFilter, filterCountry, sortConfig>>
    /\ ControlsOnly

\* a status button: setFilterStatus(status), the lit button included
clickFilterStatus(status) ==
    /\ Mounted
    /\ ~isSelectionMode
    /\ filterStatus' = status
    /\ currentPage' = ResetPagination(filterStatus' # filterStatus, currentPage)
    /\ lastEvent' = [ev |-> "status", page |-> currentPage, ok |-> filterStatus' # filterStatus]
    /\ UNCHANGED <<itemsPerPage, searchTerm, dateFilter, filterCountry, sortConfig>>
    /\ ControlsOnly

\* the date select: setDateFilter(e.target.value)
changeDateFilter(option) ==
    /\ Mounted
    /\ ~isSelectionMode
    /\ option # dateFilter
    /\ dateFilter' = option
    /\ currentPage' = ResetPagination(dateFilter' # dateFilter, currentPage)
    /\ lastEvent' = [ev |-> "date", page |-> currentPage, ok |-> TRUE]
    /\ UNCHANGED <<itemsPerPage, searchTerm, filterStatus, filterCountry, sortConfig>>
    /\ ControlsOnly

\* the country select: setFilterCountry(e.target.value)
changeFilterCountry(country) ==
    /\ Mounted
    /\ ~isSelectionMode
    /\ country # filterCountry
    /\ filterCountry' = country
    /\ currentPage' = ResetPagination(filterCountry' # filterCountry, currentPage)
    /\ lastEvent' = [ev |-> "country", page |-> currentPage, ok |-> TRUE]
    /\ UNCHANGED <<itemsPerPage, searchTerm, filterStatus, dateFilter, sortConfig>>
    /\ ControlsOnly

\* the sort select: setSortConfig({ field, direction }), an object made anew
changeSortConfig(config) ==
    /\ Mounted
    /\ ~isSelectionMode
    /\ config # sortConfig
    /\ sortConfig' = config
    /\ currentPage' = ResetPagination(TRUE, currentPage)
    /\ lastEvent' = [ev |-> "sort", page |-> currentPage, ok |-> TRUE]
    /\ UNCHANGED <<itemsPerPage, searchTerm, filterStatus, dateFilter, filterCountry>>
    /\ ControlsOnly

----------------------------------------------------------------------------
(* Stats: the series rollups *)

\* x || 0 for a number or an absent property
OrZero(x) == IF x.t = "number" /\ x.v # 0 THEN x.v ELSE 0

\* const tvEntries = filteredMovies.filter(m => m.mediaType === 'tv')
TvEntries(ms) == SelectSeq(ms, LAMBDA m : Get(m, "mediaType") = StrVal(<<"tv">>))

\* a map key taken from the title as it was typed
TvKeyRaw(m) == Get(m, "title").v

\* m.title.trim()
TvKey(m) == Trim(Get(m, "title").v)

\* new Set(tvEntries.map(m => m.title.trim()))
UniqueTvTitles(tv) == { TvKey(tv[i]) : i \in 1..Len(tv) }

TvCount(tv) == Cardinality(UniqueTvTitles(tv))

\* tvEntries.forEach(...) from entry i on, over the map built so far
RECURSIVE TvCalcFrom(_, _, _)
TvCalcFrom(tv, i, calc) ==
    IF i > Len(tv) THEN calc
    ELSE LET title == TvKey(tv[i])
             ep == OrZero(Get(tv[i], "currentEpisode"))
             dur == OrZero(Get(tv[i], "duration"))
             existing == calc[title]
         IN  TvCalcFrom(tv, i + 1,
                        [calc EXCEPT ![title] =
                            [maxEp |-> Max(existing.maxEp, ep),
                             duration |-> IF dur # 0 THEN dur ELSE existing.duration]])

\* tvCalcMap after the loop; a title not yet set reads as { maxEp: 0, duration: 0 }
TvCalcMap(tv) ==
    TvCalcFrom(tv, 1, [title \in UniqueTvTitles(tv) |-> [maxEp |-> 0, duration |-> 0]])

\* the keys of tvCalcMap in insertion order
RECURSIVE TvKeysFrom(_, _, _)
TvKeysFrom(tv, i, seen) ==
    IF i > Len(tv) THEN <<>>
    ELSE IF TvKey(tv[i]) \in seen THEN TvKeysFrom(tv, i + 1, seen)
    ELSE <<TvKey(tv[i])>> \o TvKeysFrom(tv, i + 1, seen \cup {TvKey(tv[i])})

\* Array.from(tvCalcMap.values())
TvCalcValues(tv) ==
    LET keys == TvKeysFrom(tv, 1, {})
        calc == TvCalcMap(tv)
    IN  [k \in 1..Len(keys) |-> calc[keys[k]]]

\* reduce((sum, item) => sum + item.maxEp, 0)
RECURSIVE SumMaxEp(_)
SumMaxEp(values) ==
    IF values = <<>> THEN 0 ELSE values[1].maxEp + SumMaxEp(Tail(values))

\* reduce((sum, item) => sum + (item.maxEp * item.duration), 0)
RECURSIVE SumMinutes(_)
SumMinutes(values) ==
    IF values = <<>> THEN 0
    ELSE values[1].maxEp * values[1].duration + SumMinutes(Tail(values))

TotalEpisodesWatched(ms) == SumMaxEp(TvCalcValues(TvEntries(ms)))
TvDuration(ms) == SumMinutes(TvCalcValues(TvEntries(ms)))

----------------------------------------------------------------------------
(* Stats: the genre histogram.  The full-width comma and the enumeration     *)
(* comma are the characters "FWCOMMA" and "ENUMCOMMA"; the bucket of records  *)
(* without a genre is named "UNKNOWN".                                        *)

\* the characters of /[,FWCOMMA/ENUMCOMMA\s]+/
GenreSeparators == {",", "FWCOMMA", "/", "ENUMCOMMA", " ", "\t", "\n", "\r"}

UnknownGenre == <<"UNKNOWN">>

\* m.genre.split(separators).filter(g => g.trim().length > 0): the maximal runs
\* of characters that are no separators, from position i on, cur being the
\* run read so far
RECURSIVE GenreTokensFrom(_, _, _)
GenreTokensFrom(cs, i, cur) ==
    IF i > Len(cs) THEN (IF cur = <<>> THEN <<>> ELSE <<cur>>)
    ELSE IF cs[i] \in GenreSeparators
         THEN (IF cur = <<>> THEN <<>> ELSE <<cur>>) \o GenreTokensFrom(cs, i + 1, <<>>)
         ELSE GenreTokensFrom(cs, i + 1, Append(cur, cs[i]))

GenreTokens(cs) == GenreTokensFrom(cs, 1, <<>>)

\* !m.genre
LacksGenre(m) == Get(m, "genre").t # "string" \/ Get(m, "genre").v = <<>>

\* genreCounts[g] = (genreCounts[g] || 0) + 1, the keys kept in insertion order
Bump(counts, g) ==
    IF \E k \in 1..Len(counts) : counts[k].name = g
    THEN [k \in 1..Len(counts) |->
            IF counts[k].name = g THEN [name |-> g, value |-> counts[k].value + 1]
            ELSE counts[k]]
    ELSE Append(counts, [name |-> g, value |-> 1])

\* genres.forEach(g => ...)
RECURSIVE BumpAll(_, _)
BumpAll(counts, genres) ==
    IF genres = <<>> THEN counts ELSE BumpAll(Bump(counts, genres[1]), Tail(genres))

\* the body of filteredMovies.forEach for one record
CountGenres(counts, m) ==
    IF LacksGenre(m) THEN Bump(counts, UnknownGenre)
    ELSE BumpAll(counts, GenreTokens(Get(m, "genre").v))

RECURSIVE GenreCountsFrom(_, _, _)
GenreCountsFrom(ms, i, counts) ==
    IF i > Len(ms) THEN counts
    ELSE GenreCountsFrom(ms, i + 1, CountGenres(counts, ms[i]))

\* Object.entries(genreCounts).map(([name, value]) => ({ name, value }))
GenreCounts(ms) == GenreCountsFrom(ms, 1, <<>>)

\* .sort((a, b) => b.value - a.value), a stable sort
RECURSIVE InsertByCount(_, _)
InsertByCount(sorted, x) ==
    IF sorted = <<>> THEN <<x>>
    ELSE IF sorted[Len(sorted)].value >= x.value THEN Append(sorted, x)
    ELSE Append(InsertByCount(SubSeq(sorted, 1, Len(sorted) - 1), x), sorted[Len(sorted)])

RECURSIVE SortByCount(_)
SortByCount(arr) ==
    IF arr = <<>> THEN <<>>
    ELSE InsertByCount(SortByCount(SubSeq(arr, 1, Len(arr) - 1)), arr[Len(arr)])

\* genreData: the top 8 genres
GenreData(ms) == Slice(SortByCount(GenreCounts(ms)), 0, 8)

----------------------------------------------------------------------------
(* Specifications *)

\* the identities of the records on display
ShownIds == { movies[i].id : i \in 1..Len(movies) }

\* The record list under every interleaving of the handlers, over the whole
\* catalogue of files, while no save timer fires: localStorage is written
\* only by the timer and read only at construction, so the timer does not
\* influence the list.
Next ==
    \/ \E title \in Titles : handleAddMovie(title)
    \/ \E id \in ShownIds, title \in Titles : handleUpdateMovie(id, title)
    \/ \E id \in ShownIds, confirmed \in BOOLEAN : handleDeleteMovie(id, confirmed)
    \/ \E file \in Files : handleFileChange(file)
    \/ \E read \in BagToSet(pending) : FileLoaded(read)

\* localStorage is never written in these behaviours: one absent and one
\* stored list stand for the values found at start
InitStore == Init /\ storage \in {NoText, JsonArray(<<JElem(Id1, TitleA)>>)}

Spec == InitStore /\ [][Next]_vars

\* The same handlers when each file is read before the next event, and the
\* user also picks the file an export of the current list has just written.
NextRoundTrip ==
    \/ \E title \in Titles : handleAddMovie(title)
    \/ \E id \in ShownIds, title \in Titles : handleUpdateMovie(id, title)
    \/ \E id \in ShownIds, confirmed \in BOOLEAN : handleDeleteMovie(id, confirmed)
    \/ \E file \in RoundTripFiles \cup {handleExport(movies)} : ImportAtOnce(file)

SpecRoundTrip == InitStore /\ [][NextRoundTrip]_vars

\* The same handlers together with the save timer.
NextSave ==
    \/ \E title \in Titles : handleAddMovie(title)
    \/ \E id \in ShownIds, title \in Titles : handleUpdateMovie(id, title)
    \/ \E id \in ShownIds, confirmed \in BOOLEAN : handleDeleteMovie(id, confirmed)
    \/ \E file \in SaveFiles : handleFileChange(file)
    \/ \E read \in BagToSet(pending) : FileLoaded(read)
    \/ SaveTimerFires

SpecSave == Init /\ [][NextSave]_vars

\* The handlers and the save timer under weak fairness of the timer: a timeout
\* that stays pending is eventually run by the event loop.
SpecSaveFair == SpecSave /\ WF_vars(SaveTimerFires)

----------------------------------------------------------------------------
(* Properties *)

\* the candidate batch of a file (its size does not depend on the identities minted)
BatchOf(file) == ParseFile(file, 0).batch

\* the import reached the merge: the try block neither returned early nor threw
Merged(a) == a.msg \in {"imported", "noNew"}

\* C1: no two records of the record list have the same identity.
C1_IdentityUnique ==
    \A i, j \in 1..Len(movies) : i # j => movies[i].id # movies[j].id

\* C2: an import-merge of batch B into the record list S produces the records
\* of B whose identity, as a string, is not that of a record of S, in batch
\* order, followed by S.
C2_MergeIntoCurrent ==
    [][\A read \in BagToSet(pending) :
          (FileLoaded(read) /\ Merged(alert'))
          => movies' = UniqueNewMovies(ParseFile(read.file, nextUuid).batch, CurrentIds(movies))
                       \o movies]_vars

\* C3: every import that reaches the merge reports the count of imported rows
\* and the count of skipped duplicates, and the two sum to the batch size.
C3_AlwaysReportsCounts ==
    Merged(alert) =>
        /\ Len(alert.counts) = 2
        /\ alert.counts[1] + alert.counts[2] = Len(BatchOf(loaded))

\* C3 as amended: an import that adds at least one record reports the number
\* of records added and the number skipped, which sum to the batch size; an
\* import that adds none reports no counts and leaves the list as it was.
C3_ReportsCountsWhenAdded ==
    [][\A read \in BagToSet(pending) :
          FileLoaded(read) =>
              /\ alert'.msg = "imported" =>
                    /\ Len(alert'.counts) = 2
                    /\ alert'.counts[1] = Len(movies') - Len(movies)
                    /\ alert'.counts[1] >= 1
                    /\ alert'.counts[2] >= 0
                    /\ alert'.counts[1] + alert'.counts[2] = Len(BatchOf(read.file))
              /\ alert'.msg = "noNew" => (alert'.counts = <<>> /\ movies' = movies)]_vars

C3_Witness ==
    /\ alert.msg = "imported"
    /\ alert.counts = <<1, 1>>
    /\ Len(BatchOf(loaded)) = 2

\* C4: importing the JSON export of the record list S while the list is
\* still S adds nothing: the list after the import is S.
C4_JsonRoundTrip ==
    [][ImportAtOnce(handleExport(movies))
          => (movies' = movies /\ alert' = NoNewAlert)]_vars

C4_Witness ==
    /\ alert = NoNewAlert
    /\ loaded = handleExport(movies)
    /\ \E i \in 1..Len(movies) : movies[i].id.t # "string"

\* an import that fails at file level: JSON that does not parse, JSON that is
\* not an array, an extension other than .json and .csv
FileLevelFailure(file) ==
    \/ file.ext = "json" /\ file.text.k # "json"
    \/ file.ext = "json" /\ file.text.k = "json" /\ file.text.t # "array"
    \/ file.ext \notin {"json", "csv"}

\* C5: an import that fails at file level leaves the record list as it was.
C5_FileFailureKeepsList ==
    [][\A read \in BagToSet(pending) :
          (FileLoaded(read) /\ FileLevelFailure(read.file))
          => (movies' = movies /\ moviesType' = moviesType /\ ~Merged(alert'))]_vars

C5_Witness ==
    /\ FileLevelFailure(loaded)
    /\ alert.msg \in {"failed", "notArray", "unsupported"}
    /\ movies # <<>>

\* C6: a JSON import with an element that is not an object fails and adds nothing.
C6_NonObjectElementFails ==
    [][\A read \in BagToSet(pending) :
          (/\ FileLoaded(read)
           /\ read.file.ext = "json"
           /\ \E i \in 1..Len(BatchOf(read.file)) : BatchOf(read.file)[i].t # "object")
          => (movies' = movies /\ ~Merged(alert'))]_vars

\* C7: the completion callback deduplicates against the record list that is
\* current when the merge is applied, and adds no identity the list holds.
C7_DedupAgainstCurrent ==
    [][\A read \in BagToSet(pending) :
          (FileLoaded(read) /\ Merged(alert'))
          => /\ read.currentIds = Captured(read.file, movies)
             /\ \A i \in 1..(Len(movies') - Len(movies)) :
                   JsString(movies'[i].id) \notin CurrentIds(movies)]_vars

\* C8: while the timer of a burst is pending nothing has been written; once it
\* has fired, exactly one write has happened, of the list after the last change.
C8_OneWritePerBurst ==
    Mounted =>
        /\ timers # <<>> => (burstWrites = 0 /\ timers = <<movies>>)
        /\ timers = <<>> => (burstWrites = 1 /\ storage = JsonStringify(movies))

C8_Witness ==
    /\ timers = <<>>
    /\ burstChanges = 2
    /\ burstWrites = 1
    /\ storage = JsonStringify(movies)

\* a setMovies call
Mutation ==
    \/ \E title \in Titles : handleAddMovie(title)
    \/ \E id \in ShownIds, title \in Titles : handleUpdateMovie(id, title)
    \/ \E id \in ShownIds : handleDeleteMovie(id, TRUE)
    \/ \E read \in BagToSet(pending) : FileLoaded(read) /\ alert'.msg = "imported"

Saved == timers = <<>> /\ burstWrites = 1 /\ storage = JsonStringify(movies)

\* C9: with a fair save timer, a state in which the write of the current burst
\* is still due leads to a state in which the timer has fired, one write has
\* stored the current list and no timer is pending; and once changes stop,
\* localStorage eventually holds the list and keeps holding it.
C9_EventuallySaved ==
    /\ (Mounted /\ burstWrites = 0) ~> Saved
    /\ <>[][~Mutation]_vars => <>[](Mounted => storage = JsonStringify(movies))

C9_Witness ==
    /\ Saved
    /\ burstChanges >= 1
    /\ movies # <<>>

\* C10: before any change or write, the record list is empty when the stored
\* value is absent or malformed (text that does not parse, or that parses to
\* something that is not an array), and is the stored array otherwise.
C10_LoadOnStart ==
    (burstChanges = 0 /\ burstWrites = 0) =>
        IF storage.k = "json" /\ storage.t = "array"
        THEN moviesType = "array" /\ movies = JsonParseItems(storage)
        ELSE moviesType = "array" /\ movies = <<>>

\* values localStorage holds when bulk selection is studied: a string and a
\* numeric identity
SelectStores ==
    { NoText,
      JsonArray(<<JElem(Id1, TitleA), JElem(NumVal(2), TitleB), JElem(StrVal(<<"3">>), TitleA)>>) }

\* the search terms typed while bulk selection is studied
SelectSearchTerms == { <<>>, <<"b">> }

\* Single delete, the bulk toolbar, the form and the search box.
NextSelect ==
    \/ \E title \in Titles : handleAddMovie(title)
    \/ \E id \in DisplayedIds, confirmed \in BOOLEAN :
          ~isSelectionMode /\ handleDeleteMovie(id, confirmed)
    \/ toggleSelectionMode
    \/ \E id \in DisplayedIds : toggleSelectMovie(id)
    \/ handleSelectAll
    \/ \E confirmed \in BOOLEAN : handleBulkDelete(confirmed)
    \/ \E term \in SelectSearchTerms : changeSearchTerm(term)

InitSelect == Booted(SelectStores)

SpecSelect == InitSelect /\ [][NextSelect]_vars

----------------------------------------------------------------------------
(* The list pipeline as functions of their arguments *)

MaxStr == 3        \* longest string given to levenshtein and to the substring search
MaxWord == 5       \* longest word whose adjacent characters are swapped
MaxShelf == 3      \* longest record list filtered and sorted

\* all strings of at most n characters of an alphabet
StringsOver(alphabet, n) == UNION { [1..k -> alphabet] : k \in 0..n }

\* the string cs with the characters at k and k + 1 swapped
SwapAt(cs, k) ==
    [i \in 1..Len(cs) |-> IF i = k THEN cs[k + 1] ELSE IF i = k + 1 THEN cs[k] ELSE cs[i]]

\* a word alone, after a separator and before one
Embeddings(w) == { w, <<"c", "-">> \o w, w \o <<" ", "c">> }

\* Each behaviour studies one call: an Apply step is taken from the state in
\* which no call has been made.
ApplyLevenshtein ==
    /\ probe = NoProbe
    /\ \E a, b \in StringsOver({"a", "b"}, MaxStr) :
          probe' = [fn |-> "levenshtein", a |-> a, b |-> b, out |-> levenshtein(a, b)]
    /\ UNCHANGED <<store, view, lastEvent>>

\* a search among short texts, absent ones included
ApplyFuzzyMatch ==
    /\ probe = NoProbe
    /\ \E text \in {Undefined} \cup { StrVal(cs) : cs \in StringsOver({"a", "B", " "}, MaxStr) },
          search \in StringsOver({"a", "b", "A"}, MaxStr - 1) :
          probe' = [fn |-> "fuzzyMatch", text |-> text, search |-> search,
                    out |-> fuzzyMatch(text, search)]
    /\ UNCHANGED <<store, view, lastEvent>>

\* a search for a word of the text typed with two adjacent characters swapped
ApplyFuzzyMatchSwapped ==
    /\ probe = NoProbe
    /\ \E n \in 4..MaxWord :
          \E w \in [1..n -> {"a", "b", "A"}], k \in 1..(n - 1) :
             \E cs \in Embeddings(w) :
                probe' = [fn |-> "fuzzyMatch", text |-> StrVal(cs), search |-> SwapAt(w, k),
                          out |-> fuzzyMatch(StrVal(cs), SwapAt(w, k))]
    /\ UNCHANGED <<store, view, lastEvent>>

\* the pages of a sorted sequence of n records, named 1..n, at a page size
ApplyPaginate ==
    /\ probe = NoProbe
    /\ \E n \in 0..MaxRecords, size \in PageSizeOptions :
          LET sorted == [i \in 1..n |-> i]
          IN  probe' = [fn |-> "paginate", sorted |-> sorted, size |-> size,
                        totalPages |-> TotalPages(sorted, size),
                        pages |-> [p \in 1..TotalPages(sorted, size) |->
                                      CurrentDisplayedMovies(sorted, p, size)]]
    /\ UNCHANGED <<store, view, lastEvent>>

\* Records to filter and to sort.  The first and the last were added the same
\* day with the same title; two pairs have the same rating and two the same
\* year; one has no genre, no country and a year that is not a number.
Catalogue ==
    { Entry(Id1, StrVal(<<"a", "b">>), StrVal(<<"c">>), WATCHED, NumVal(67),
            StrVal(<<"U", "S">>), NumVal(5), StrVal(<<"1", "9", "9", "9">>), StrVal(<<"tv">>)),
      Entry(Id2, StrVal(<<"b">>), StrVal(<<"a", "b">>), PLANNING, NumVal(50),
            StrVal(<<"U", "K", " ", "U", "S">>), NumVal(5), StrVal(<<"2", "0", "0", "1">>), StrVal(<<"movie">>)),
      Entry(StrVal(<<"3">>), StrVal(<<"c">>), Undefined, WATCHED, NumVal(0 - 1),
            Undefined, NumVal(3), StrVal(<<"x">>), StrVal(<<"movie">>)),
      Entry(StrVal(<<"4">>), StrVal(<<"a", "b">>), StrVal(<<"b">>), PLANNING, NumVal(67),
            StrVal(<<"U", "K">>), NumVal(3), StrVal(<<"1", "9", "9", "9">>), StrVal(<<"tv">>)) }

\* the lists of at most MaxShelf different records of the catalogue
Shelves ==
    { shelf \in UNION { [1..k -> Catalogue] : k \in 0..MaxShelf } :
        \A i, j \in 1..Len(shelf) : i # j => shelf[i] # shelf[j] }

SearchTerms == { <<>>, <<"a", "b">>, <<"c">> }
StatusButtons == { AllStatus, WATCHED, PLANNING }
DateOptions == { AllTime, Last7Days, Last30Days, YearOption(2023), YearOption(2024), MonthOption(2024, 2) }
CountryOptions == { AllCountries, StrVal(<<"U", "S">>), StrVal(<<"U", "K">>) }
SortFields == { "addedAt", "rating", "year", "title" }

\* the filtered list of a record list under a filter configuration
ApplyFilter ==
    /\ probe = NoProbe
    /\ \E ms \in Shelves, term \in SearchTerms, status \in StatusButtons,
          option \in DateOptions, country \in CountryOptions :
          probe' = [fn |-> "filter", movies |-> ms, term |-> term, status |-> status,
                    option |-> option, country |-> country,
                    out |-> FilteredMovies(ms, term, status, option, country, Today)]
    /\ UNCHANGED <<store, view, lastEvent>>

\* the two sorted lists of a filtered list by one field
ApplySort ==
    /\ probe = NoProbe
    /\ \E filtered \in Shelves, field \in SortFields :
          probe' = [fn |-> "sort", filtered |-> filtered, field |-> field,
                    asc |-> SortedMovies(filtered, [field |-> field, direction |-> "asc"]),
                    desc |-> SortedMovies(filtered, [field |-> field, direction |-> "desc"])]
    /\ UNCHANGED <<store, view, lastEvent>>

InitPipeline == Init /\ storage = NoText

NextPipeline ==
    \/ ApplyLevenshtein
    \/ ApplyFuzzyMatch
    \/ ApplyFuzzyMatchSwapped
    \/ ApplyPaginate
    \/ ApplyFilter
    \/ ApplySort

SpecPipeline == InitPipeline /\ [][NextPipeline]_vars

\* the decimal digits of a number below 100
DecimalChars(n) == IF n < 10 THEN <<ToString(n)>> ELSE <<ToString(n \div 10), ToString(n % 10)>>

\* the k-th record of a library whose records were added since 10 February 2024
LibraryEntry(k) ==
    Entry(StrVal(DecimalChars(k)),
          IF k % 2 = 0 THEN StrVal(<<"c">>) ELSE StrVal(<<"a", "b">>),
          Undefined,
          IF k % 3 = 0 THEN PLANNING ELSE WATCHED,
          NumVal(40 + ((k * 7) % 29)),
          IF k % 2 = 0 THEN StrVal(<<"U", "S">>) ELSE StrVal(<<"U", "K">>),
          NumVal(k % 5),
          StrVal(<<"1", "9", "9", "9">>),
          IF k % 4 = 1 THEN StrVal(<<"tv">>) ELSE StrVal(<<"movie">>))

\* a stored library of MaxRecords records
Library == [i \in 1..MaxRecords |-> LibraryEntry(MaxRecords + 1 - i)]

LibraryStores == { JsonStringify(Library) }

PageSearchTerms == { <<>>, <<"c">> }
PageStatusButtons == { AllStatus, WATCHED }
PageDateOptions == { AllTime, Last7Days }
PageCountryOptions == { AllCountries, StrVal(<<"U", "S">>) }
PageSortOptions ==
    { [field |-> "addedAt", direction |-> "desc"],
      [field |-> "rating", direction |-> "asc"],
      [field |-> "title", direction |-> "asc"] }

\* the time frames of Stats: all, this year, this month
TimeFrames == { AllTime, YearOption(2024), MonthOption(2024, 3) }

\* titles typed into the form
FormTitles == { <<"A", "b", " ">>, <<"c", "c">> }

\* the page numbers handed to handlePageChange
PageInputs == 0..(TotalPages(SortedNow, itemsPerPage) + 1)

\* The filter bar and the pager over a stored library.
NextPage ==
    \/ \E page \in PageInputs : handlePageChange(page)
    \/ \E size \in PageSizeOptions : changeItemsPerPage(size)
    \/ \E term \in PageSearchTerms : changeSearchTerm(term)
    \/ \E status \in PageStatusButtons : clickFilterStatus(status)
    \/ \E option \in PageDateOptions : changeDateFilter(option)
    \/ \E country \in PageCountryOptions : changeFilterCountry(country)
    \/ \E config \in PageSortOptions : changeSortConfig(config)
    \/ \E frame \in TimeFrames : selectTimeFrame(frame)
    \/ \E title \in FormTitles : typeTitle(title)

InitPage == Booted(LibraryStores)

SpecPage == InitPage /\ [][NextPage]_vars

\* C18: a search for the empty term matches every text, an absent one too,
\* and a term that is a contiguous part of the text, letter case aside, matches.
C18_EmptyAndSubstringMatch ==
    probe.fn = "fuzzyMatch" =>
        /\ probe.search = <<>> => probe.out
        /\ (/\ probe.text.t = "string"
            /\ Includes(ToLowerCase(probe.text.v), ToLowerCase(probe.search))) => probe.out

C18_Witness ==
    /\ probe.fn = "fuzzyMatch"
    /\ probe.out
    /\ probe.text.t = "string"
    /\ Len(probe.search) = 2
    /\ ~Includes(probe.text.v, probe.search)
    /\ Includes(ToLowerCase(probe.text.v), ToLowerCase(probe.search))

\* s is t with two adjacent characters swapped
IsAdjacentSwap(s, t) ==
    /\ Len(s) = Len(t)
    /\ \E k \in 1..(Len(t) - 1) : s = SwapAt(t, k)

\* C19: a term of five or more characters that is the text, or one word of
\* the text, with two adjacent characters swapped matches the text.
C19_AdjacentSwapMatches ==
    (/\ probe.fn = "fuzzyMatch"
     /\ probe.text.t = "string"
     /\ Len(probe.search) >= 5
     /\ \/ IsAdjacentSwap(probe.search, probe.text.v)
        \/ \E w \in 1..Len(SplitWords(probe.text.v)) :
              IsAdjacentSwap(probe.search, SplitWords(probe.text.v)[w]))
    => probe.out

C19_Witness ==
    /\ probe.fn = "fuzzyMatch"
    /\ probe.out
    /\ Len(probe.search) = 5
    /\ Len(probe.text.v) > 5
    /\ ~Includes(ToLowerCase(probe.text.v), ToLowerCase(probe.search))
    /\ \E w \in 1..Len(SplitWords(probe.text.v)) :
          /\ IsAdjacentSwap(probe.search, SplitWords(probe.text.v)[w])
          /\ levenshtein(ToLowerCase(probe.search), ToLowerCase(SplitWords(probe.text.v)[w])) = 2

\* C20: the edit distance is symmetric, is 0 exactly for equal strings, is at
\* most the length of the longer string, and is the length of the other
\* string when one is empty.
C20_LevenshteinLaws ==
    probe.fn = "levenshtein" =>
        /\ probe.out = levenshtein(probe.b, probe.a)
        /\ (probe.out = 0) <=> (probe.a = probe.b)
        /\ probe.out <= Max(Len(probe.a), Len(probe.b))
        /\ probe.a = <<>> => probe.out = Len(probe.b)
        /\ probe.b = <<>> => probe.out = Len(probe.a)

C20_Witness ==
    /\ probe.fn = "levenshtein"
    /\ Len(probe.a) = 3
    /\ Len(probe.b) = 2
    /\ probe.out = 2

\* the concatenation of a sequence of sequences
RECURSIVE Concat(_)
Concat(seqs) == IF seqs = <<>> THEN <<>> ELSE Head(seqs) \o Concat(Tail(seqs))

\* C14: the page count is the least k with k * size >= n, page p holds the
\* elements at positions (p-1)*size+1 .. min(p*size, n) in order, and the
\* pages in order make up the sorted sequence.
C14_PagesPartitionSequence ==
    probe.fn = "paginate" =>
        LET n == Len(probe.sorted)
            s == probe.size
            k == probe.totalPages
        IN  /\ k * s >= n
            /\ k >= 0
            /\ k > 0 => (k - 1) * s < n
            /\ Len(probe.pages) = k
            /\ \A p \in 1..k :
                  probe.pages[p] = [i \in 1..(Min(p * s, n) - (p - 1) * s) |->
                                      probe.sorted[(p - 1) * s + i]]
            /\ Concat(probe.pages) = probe.sorted

C14_Witness ==
    /\ probe.fn = "paginate"
    /\ probe.totalPages = 3
    /\ Len(probe.pages[3]) = 1
    /\ Len(probe.pages[1]) = 12

\* C15: for each sort key the descending list is the ascending list read
\* backwards, records that compare equal included.
C15_DescendingIsReverse ==
    probe.fn = "sort" =>
        /\ Len(probe.desc) = Len(probe.asc)
        /\ \A i \in 1..Len(probe.asc) : probe.desc[i] = probe.asc[Len(probe.asc) + 1 - i]

C15_Witness ==
    /\ probe.fn = "sort"
    /\ probe.field = "rating"
    /\ Len(probe.filtered) = 3
    /\ probe.filtered[1].rating = probe.filtered[3].rating
    /\ probe.desc # probe.asc
    /\ probe.desc[1] = probe.filtered[3]
    /\ probe.desc[2] = probe.filtered[1]

\* the four conditions of the filter as the contract words them
SearchHolds(m, term) == fuzzyMatch(Get(m, "title"), term) \/ fuzzyMatch(Get(m, "genre"), term)
StatusHolds(m, status) == status = AllStatus \/ Get(m, "status") = status
DateHolds(m, option, now) ==
    \/ option.k = "all"
    \/ /\ Get(m, "addedAt").t = "number"
       /\ \/ option.k = "7d" /\ Get(m, "addedAt").v >= now - 7
          \/ option.k = "30d" /\ Get(m, "addedAt").v >= now - 30
          \/ option.k = "year" /\ getFullYear(Get(m, "addedAt").v) = option.y
          \/ /\ option.k = "month"
             /\ getFullYear(Get(m, "addedAt").v) = option.y
             /\ MonthOf(Get(m, "addedAt").v) = option.m
CountryHolds(m, country) ==
    \/ country = AllCountries
    \/ /\ Get(m, "country").t = "string"
       /\ \E k \in 0..(Len(Get(m, "country").v) - Len(country.v)) :
             \A i \in 1..Len(country.v) : Get(m, "country").v[k + i] = country.v[i]

\* C16: the filtered list is the record list without the records that fail
\* one of the four conditions, in the order of the record list.
C16_FilterIsIntersection ==
    probe.fn = "filter" =>
        /\ probe.out = SelectSeq(probe.movies, LAMBDA m : \E i \in 1..Len(probe.out) : probe.out[i] = m)
        /\ \A j \in 1..Len(probe.movies) :
              (\E i \in 1..Len(probe.out) : probe.out[i] = probe.movies[j])
              <=> /\ SearchHolds(probe.movies[j], probe.term)
                  /\ StatusHolds(probe.movies[j], probe.status)
                  /\ DateHolds(probe.movies[j], probe.option, Today)
                  /\ CountryHolds(probe.movies[j], probe.country)

C16_Witness ==
    /\ probe.fn = "filter"
    /\ Len(probe.movies) = 3
    /\ Len(probe.out) = 1
    /\ probe.term # <<>>
    /\ probe.status # AllStatus
    /\ probe.option.k = "30d"
    /\ probe.country # AllCountries
    /\ \E j \in 1..3 :
          /\ SearchHolds(probe.movies[j], probe.term)
          /\ StatusHolds(probe.movies[j], probe.status)
          /\ DateHolds(probe.movies[j], probe.option, Today)
          /\ ~CountryHolds(probe.movies[j], probe.country)

\* C11: a single delete and a bulk delete whose confirmation is declined
\* leave the record list, the selection and the selection mode as they were.
C11_DeclinedDeleteChangesNothing ==
    [][(\/ \E id \in DisplayedIds : handleDeleteMovie(id, FALSE)
        \/ handleBulkDelete(FALSE))
       => UNCHANGED <<movies, selectedIds, isSelectionMode>>]_vars

C11_Witness ==
    /\ lastEvent.ev = "bulkDelete"
    /\ ~lastEvent.ok
    /\ isSelectionMode
    /\ Len(movies) >= 2
    /\ \E i \in 1..Len(movies) : StrVal(JsString(movies[i].id)) \in selectedIds

\* C12: handlePageChange(p) leaves the current page alone when p is below 1
\* or above the number of pages, and otherwise makes p the current page;
\* the record list, the filters, the sort configuration and the page size
\* stay as they were.
C12_PageChangeGuarded ==
    [][\A p \in PageInputs :
          (lastEvent'.ev = "page" /\ lastEvent'.page = p /\ handlePageChange(p)) =>
            /\ currentPage' = IF p < 1 \/ p > TotalPages(SortedNow, itemsPerPage)
                              THEN currentPage ELSE p
            /\ UNCHANGED <<movies, searchTerm, filterStatus, dateFilter, filterCountry,
                           sortConfig, itemsPerPage>>]_vars

\* page 3 asked for while page 2 of 2 is shown
C12_Witness ==
    /\ lastEvent = [ev |-> "page", page |-> 3, ok |-> FALSE]
    /\ currentPage = 2
    /\ TotalPages(SortedNow, itemsPerPage) = 2

\* C13: a step that changes the page size, the search term, the status, date or
\* country filter, or the sort configuration ends on page 1.
C13_FilterChangeResetsPage ==
    [][(\/ itemsPerPage' # itemsPerPage
        \/ searchTerm' # searchTerm
        \/ filterStatus' # filterStatus
        \/ dateFilter' # dateFilter
        \/ filterCountry' # filterCountry
        \/ sortConfig' # sortConfig)
       => currentPage' = 1]_vars

\* a filter changed while a later page was shown
C13_Witness ==
    /\ lastEvent.ev \in {"search", "status", "date", "country", "sort"}
    /\ lastEvent.ok
    /\ lastEvent.page > 1
    /\ currentPage = 1

\* C17: computing the filtered and sorted list, the page slice, the
\* statistics and the auto-fill match of the form leaves the stored record
\* list as it was, order included: no step of the filter bar, the pager,
\* Stats or the form's auto-fill changes `movies`.
C17_DerivedViewsKeepRecords == [][movies' = movies]_vars

\* the form has found earlier episodes while the list is shown in another
\* order than it is stored
C17_Witness ==
    /\ lastEvent.ev = "autofill"
    /\ lastEvent.page > 1
    /\ Len(SortedNow) = Len(movies)
    /\ SortedNow # movies

----------------------------------------------------------------------------
(* Stats as a function of the records it is given *)

MaxSeries == 3     \* longest record list given to Stats

WatchEntry(title, mediaType, currentEpisode, duration) ==
    [t |-> "object", title |-> StrVal(title), mediaType |-> StrVal(<<mediaType>>),
     currentEpisode |-> currentEpisode, duration |-> duration]

\* watch entries of the series "F" (also typed with a trailing blank) and "G",
\* and a film
WatchEntries ==
    { WatchEntry(<<"F">>, "tv", ep, dur) :
        ep \in {Undefined, NumVal(5), NumVal(8)}, dur \in {NumVal(0), NumVal(40), NumVal(45)} }
    \cup { WatchEntry(<<"F", " ">>, "tv", NumVal(8), NumVal(40)),
           WatchEntry(<<"F", " ">>, "tv", NumVal(5), NumVal(45)),
           WatchEntry(<<"F", " ">>, "tv", Undefined, NumVal(0)),
           WatchEntry(<<"G">>, "tv", NumVal(5), NumVal(40)),
           WatchEntry(<<"F">>, "movie", Undefined, NumVal(45)) }

WatchLists == UNION { [1..k -> WatchEntries] : k \in 0..MaxSeries }

ApplyTvStats ==
    /\ probe = NoProbe
    /\ \E ms \in WatchLists :
          probe' = [fn |-> "tv", movies |-> ms,
                    tvCount |-> TvCount(TvEntries(ms)),
                    calc |-> TvCalcMap(TvEntries(ms)),
                    totalEpisodesWatched |-> TotalEpisodesWatched(ms),
                    tvDuration |-> TvDuration(ms)]
    /\ UNCHANGED <<store, view, lastEvent>>

\* a record with the given genre field
Tagged(genre) == [t |-> "object", genre |-> genre]

\* genre fields: absent, empty, one token, a token twice, two tokens, nine tokens
GenreFields ==
    { Undefined, StrVal(<<>>), StrVal(<<"a">>), StrVal(<<"a", ",", " ", "a">>),
      StrVal(<<"b", "/", "a">>), StrVal(<<"c", "FWCOMMA", "b">>),
      StrVal(<<"a", " ", "b", " ", "c", " ", "d", " ", "e", " ", "f", " ", "g", " ", "h", " ", "i">>) }

TaggedLists == UNION { [1..k -> { Tagged(genre) : genre \in GenreFields }] : k \in 0..MaxSeries }

ApplyGenreStats ==
    /\ probe = NoProbe
    /\ \E ms \in TaggedLists :
          probe' = [fn |-> "genre", movies |-> ms, genreData |-> GenreData(ms)]
    /\ UNCHANGED <<store, view, lastEvent>>

NextStats ==
    \/ ApplyTvStats
    \/ ApplyGenreStats

SpecStats == InitPipeline /\ [][NextStats]_vars

\* the positions of the series entries of a trimmed title
EntriesOf(ms, title) ==
    { i \in 1..Len(ms) : /\ Get(ms[i], "mediaType") = StrVal(<<"tv">>)
                          /\ Trim(Get(ms[i], "title").v) = title }

SeriesTitles(ms) ==
    { Trim(Get(ms[i], "title").v) :
        i \in { j \in 1..Len(ms) : Get(ms[j], "mediaType") = StrVal(<<"tv">>) } }

Greatest(set) == CHOOSE x \in set : \A y \in set : y <= x

MaxEpisode(ms, title) ==
    Greatest({ OrZero(Get(ms[i], "currentEpisode")) : i \in EntriesOf(ms, title) })

RECURSIVE SumOfEpisodes(_, _)
SumOfEpisodes(ms, titles) ==
    IF titles = {} THEN 0
    ELSE LET title == CHOOSE x \in titles : TRUE
         IN  MaxEpisode(ms, title) + SumOfEpisodes(ms, titles \ {title})

RECURSIVE SumOfMinutes(_, _, _)
SumOfMinutes(ms, titles, perEpisode) ==
    IF titles = {} THEN 0
    ELSE LET title == CHOOSE x \in titles : TRUE
         IN  MaxEpisode(ms, title) * perEpisode[title]
               + SumOfMinutes(ms, titles \ {title}, perEpisode)

\* C21: the series count is the number of distinct trimmed titles among the
\* series records, episodes watched is the sum over those titles of the
\* largest current episode of the title, and the series minutes are the sum
\* over the titles of largest episode times the title's per-episode duration.
C21_SeriesRollup ==
    probe.fn = "tv" =>
        /\ probe.tvCount = Cardinality(SeriesTitles(probe.movies))
        /\ DOMAIN probe.calc = SeriesTitles(probe.movies)
        /\ probe.totalEpisodesWatched = SumOfEpisodes(probe.movies, SeriesTitles(probe.movies))
        /\ probe.tvDuration =
              SumOfMinutes(probe.movies, SeriesTitles(probe.movies),
                           [title \in SeriesTitles(probe.movies) |-> probe.calc[title].duration])

\* two entries of "F", one typed with a trailing blank, episodes 5 and 8, 40 minutes each
C21_Witness ==
    /\ probe.fn = "tv"
    /\ probe.movies = <<WatchEntry(<<"F">>, "tv", NumVal(5), NumVal(40)),
                        WatchEntry(<<"F", " ">>, "tv", NumVal(8), NumVal(40))>>
    /\ probe.tvCount = 1
    /\ probe.totalEpisodesWatched = 8
    /\ probe.tvDuration = 320

Least(set) == CHOOSE x \in set : \A y \in set : x <= y

\* the entries of a title that carry a duration
TimedEntriesOf(ms, title) ==
    { i \in EntriesOf(ms, title) : OrZero(Get(ms[i], "duration")) # 0 }

\* C26: the per-episode duration of a series title is the non-zero duration
\* of its most recently supplied entry that has one, and 0 when no entry has
\* one.  New records are put in front of the list, so the most recently
\* supplied entry of a title is the one nearest the front.
C26_DurationOfLatestEntry ==
    probe.fn = "tv" =>
        /\ DOMAIN probe.calc = SeriesTitles(probe.movies)
        /\ \A title \in SeriesTitles(probe.movies) :
              probe.calc[title].duration =
                 IF TimedEntriesOf(probe.movies, title) = {} THEN 0
                 ELSE OrZero(Get(probe.movies[Least(TimedEntriesOf(probe.movies, title))], "duration"))

\* the records of a list whose genre field holds the token
RecordsWith(ms, token) ==
    { i \in 1..Len(ms) :
        /\ ~LacksGenre(ms[i])
        /\ \E k \in 1..Len(GenreTokens(Get(ms[i], "genre").v)) :
              GenreTokens(Get(ms[i], "genre").v)[k] = token }

\* C24: the genre histogram counts a token once for each record that has it,
\* counts the records without a genre under the unknown bucket, is ordered
\* by non-increasing count and has at most 8 buckets.
C24_GenreHistogram ==
    probe.fn = "genre" =>
        LET data == probe.genreData
            ms == probe.movies
        IN  /\ Len(data) <= 8
            /\ \A k \in 1..(Len(data) - 1) : data[k].value >= data[k + 1].value
            /\ \A k \in 1..Len(data) :
                  data[k].value =
                     IF data[k].name = UnknownGenre
                     THEN Cardinality({ i \in 1..Len(ms) : LacksGenre(ms[i]) })
                     ELSE Cardinality(RecordsWith(ms, data[k].name))

\* C27: a confirmed single delete of identity i removes exactly the records
\* whose identity is i, a confirmed bulk delete removes exactly the records
\* whose identity is selected; the other records stay, in their order, and
\* after a bulk delete selection mode is off and the selection is empty.
C27_ConfirmedDeleteRemovesExactly ==
    [][/\ \A id \in DisplayedIds :
            handleDeleteMovie(id, TRUE) =>
               movies' = SelectSeq(movies, LAMBDA m : JsString(m.id) # JsString(id))
       /\ handleBulkDelete(TRUE) =>
            /\ movies' = SelectSeq(movies, LAMBDA m : m.id \notin selectedIds)
            /\ isSelectionMode' = FALSE
            /\ selectedIds' = {}]_vars

\* C29: the selection is empty whenever selection mode is off, every selected
\* identity is the identity of a record of the filtered and sorted list, and
\* toggling selection mode in either direction empties the selection.
C29_SelectionWithinList ==
    /\ [](~isSelectionMode => selectedIds = {})
    /\ [](selectedIds \subseteq { SortedNow[i].id : i \in 1..Len(SortedNow) })
    /\ [][toggleSelectionMode => selectedIds' = {}]_vars

\* a record selected while the search box hides other records
C29_Witness ==
    /\ isSelectionMode
    /\ selectedIds # {}
    /\ searchTerm # <<>>
    /\ Len(SortedNow) < Len(movies)

----------------------------------------------------------------------------
(* The pager while records are deleted *)

MaxDeleted == 2    \* records deleted from the stored library

\* a stored library one record longer than the smallest page
ShortLibrary == SubSeq(Library, 1, 13)

ShortLibraryStores == { JsonStringify(ShortLibrary) }

NextShrink ==
    \/ \E page \in PageInputs : handlePageChange(page)
    \/ \E size \in PageSizeOptions : changeItemsPerPage(size)
    \/ \E term \in PageSearchTerms : changeSearchTerm(term)
    \/ \E id \in DisplayedIds :
          /\ ~isSelectionMode
          /\ Len(movies) > Len(ShortLibrary) - MaxDeleted
          /\ handleDeleteMovie(id, TRUE)

InitShrink == Booted(ShortLibraryStores)

SpecShrink == InitShrink /\ [][NextShrink]_vars

\* C28: whenever the sorted list is not empty the current page lies between
\* 1 and the number of pages, so the page shown is not empty while records
\* match.
C28_PageWithinRange ==
    Len(SortedNow) > 0 =>
        /\ currentPage \in 1..TotalPages(SortedNow, itemsPerPage)
        /\ DisplayedNow # <<>>

----------------------------------------------------------------------------
(* Records with a rating and a last-modified time, through the form, the   *)
(* import and the delimited-text export                                     *)

MaxClock == 2      \* readings of Date.now()

Clock == 1..MaxClock

\* an element of a JSON file that carries a rating
JElemRated(id, title, rating) == [t |-> "object", id |-> id, title |-> title, rating |-> rating]

\* a text with a line feed followed by a comma
TitleLines == StrVal(<<"\n", ",">>)
\* a text with a comma and a double quote
TitleQuoted == StrVal(<<"a", ",", "\"">>)

\* the files chosen: JSON with a rating above five, with a shared identity
\* and with a title of two lines; delimited text with a rating cell that is
\* no number, and with empty and half-numeric cells in the other columns
FieldFiles ==
    { File("json", JsonArray(<<JElemRated(Id1, TitleA, NumVal(9))>>)),
      File("json", JsonArray(<<JElem(Id1, TitleA), JElem(Id1, TitleB)>>)),
      File("json", JsonArray(<<JElemRated(Id2, TitleLines, NumVal(3))>>)),
      File("csv", Chars(HeaderId \o <<",">> \o HeaderTitle \o <<",">> \o HeaderRating
                        \o <<"\n", "7", ",", "a", ",", "x">>)),
      File("csv", Chars(HeaderId \o <<",">> \o HeaderRating \o <<",">> \o HeaderCurrentEpisode
                        \o <<",">> \o HeaderTotalEpisodes \o <<",">> \o HeaderDuration
                        \o <<"\r", "\n", "8", ",", " ", "4", ",", ",", "-", "2", ",", "3", "m">>)) }

\* what the form submits: a title typed, a rating clicked
SubmittedTitles == { TitleA, TitleQuoted }
FormRatings == { 0, 5 }

\* the identities an edit is submitted for: those on display and one that
\* no record carries
EditIds == ShownIds \cup { StrVal(<<"0">>) }

NextFields ==
    \/ \E title \in SubmittedTitles, rating \in FormRatings, now \in Clock :
          handleAddMovieData(FormData(Undefined, title, rating), now)
    \/ \E id \in EditIds, title \in SubmittedTitles, rating \in FormRatings, now \in Clock :
          handleUpdateMovieData(FormData(id, title, rating), now)
    \/ \E id \in ShownIds : handleDeleteMovie(id, TRUE)
    \/ \E file \in FieldFiles : ImportAtOnce(file)
    \/ ImportAtOnce(handleExportCsv(movies))

InitFields == Booted({NoText})

SpecFields == InitFields /\ [][NextFields]_vars

\* C22: every record's rating is a number between 0 and 5, in every state
\* the form submissions and the imports lead to.
C22_RatingInRange ==
    \A i \in 1..Len(movies) :
        LET rating == Get(movies[i], "rating")
        IN  rating.t = "number" /\ rating.v \in 0..5

\* C23: after the import of a delimited text whose rows are all new, every
\* data row is in the list, and each of its numeric fields is a number:
\* the number its cell starts with, 0 when the cell is empty or holds none.
C23_NumericCellsDefaultToZero ==
    (loaded.ext = "csv" /\ alert.msg = "imported" /\ alert.counts[2] = 0) =>
        LET lines == SplitLines(loaded.text.items)
            headerRow == parseCSVLine(StripBom(lines[1]))
            rows == DataRows(lines)
        IN  /\ alert.counts[1] = Len(rows)
            /\ \A i \in 1..Len(rows) :
                 \A key \in DOMAIN NumericHeaders :
                    LET col == ColumnOf(headerRow, NumericHeaders[key])
                    IN  col # 0 =>
                          /\ Get(movies[i], key).t = "number"
                          /\ Get(movies[i], key) = NumericCellOrZero(CellValue(rows[i], col))

\* C25: an edit submitted for the identity i gives each record with that
\* identity the submitted fields and the time of the edit, keeps its
\* identity and its place, keeps the length of the list and leaves every
\* other record as it was; when no record has the identity the list stays
\* as it was.
C25_EditReplacesOneRecord ==
    [][\A id \in EditIds, title \in SubmittedTitles, rating \in FormRatings, now \in Clock :
          (lastEvent'.ev = "edit" /\ handleUpdateMovieData(FormData(id, title, rating), now)) =>
              /\ Len(movies') = Len(movies)
              /\ \A k \in 1..Len(movies) :
                    Get(movies[k], "id") = id =>
                        /\ movies'[k].id = id
                        /\ movies'[k].title = title
                        /\ movies'[k].rating = NumVal(rating)
                        /\ movies'[k].lastUpdated = NumVal(now)
                        /\ \A j \in 1..Len(movies) : j # k => movies'[j] = movies[j]
              /\ ((\A k \in 1..Len(movies) : Get(movies[k], "id") # id) => movies' = movies)]_vars

\* C30: the delimited-text export of the list S, imported while the list is
\* S, is parsed into one row per record of S with the identity of that
\* record, every row is skipped as a duplicate and the list stays S.
C30_CsvRoundTrip ==
    [][(loaded' = handleExportCsv(movies) /\ ImportAtOnce(handleExportCsv(movies))) =>
          LET rows == CsvMovies(handleExportCsv(movies).text.items, nextUuid)
          IN  /\ Len(rows) = Len(movies)
              /\ \A i \in 1..Len(rows) : JsString(rows[i].id) = JsString(movies[i].id)
              /\ movies' = movies
              /\ alert' = NoNewAlert]_vars

====
